---- MODULE Spec2Model ----
(***************************************************************************)
(* Model of the scraper pipeline: the pagination walk                      *)
(* (extract_company_profiles of both scrapers) and the profile-visiting    *)
(* phase (SeleniumScraper.extract_details_and_emails_parallel with its     *)
(* worker _process_single_profile, RequestsScraper.                        *)
(* extract_details_and_emails).                                            *)
(*                                                                         *)
(* The portal, the browser driver and the HTTP session are the             *)
(* environment: what a page holds, whether a call raises and which         *)
(* exception it raises are chosen with \E in the actions.                  *)
(***************************************************************************)
EXTENDS Integers, Sequences, FiniteSets, TLC

(* ------------------------------ bounds --------------------------------- *)

\* Largest max_pages argument explored.
MaxPagesArg == 3

\* Number of distinct profile paths the portal's pages may link to.
MaxPath == 2

\* Longest company_profiles list handed to the profile-visiting phase.
MaxProfiles == 2

\* Longest company_profiles list handed to the thread pool when only its
\* scheduling is followed: one more than the pool has workers.
MaxPoolProfiles == 8

\* Largest max_pages argument when scrape() is followed from the walk to the
\* return of the pool.
MaxScrapePages == 2

\* Most pages of a portal that is walked in both pagination modes.
MaxSitePages == 2

\* Most whitespace characters around an obfuscation marker.
MaxGap == 1

\* Most addresses in the text of a page.
MaxAddresses == 2

\* Longest local part of the addresses given to the deduplication.
MaxLocalLen == 2

\* Largest set of addresses given to the deduplication and to the filter.
MaxSetSize == 2

\* Most padding characters in a scored local part: enough to pass 20.
MaxPad == 21

(* --------------------------- program constants ------------------------- *)

\* ThreadPoolExecutor(max_workers=7)
MaxWorkers == 7

Engines == {"selenium", "requests"}

\* 'wlw' paginates by clicking; every other portal by a templated URL.
Portals == {"wlw", "europages"}

VARIABLES
    engine,            \* config['engine']
    portal,            \* self.portal
    max_pages,         \* self.max_pages
    (* extract_company_profiles *)
    wpc,               \* position of the walk: start, loop, returned, raised
    current_page,      \* current_page
    links,             \* links (a Python set)
    main_driver,       \* handler.driver of the discovery handler: none, open
    company_profiles,  \* list(links) as returned; the list the crawl is given
    pages_scraped,     \* <<current_page - 1>> as returned; <<>> when the backend returns none
    (* what the portal was asked and what it showed (history) *)
    pageRequests,      \* pages requested, in order (driver.get / session.get / click)
    extracted,         \* pages whose profile links were added to links
    seenHrefs,         \* href attributes of the link elements of the extracted pages
    noNextPage,        \* page on which the next-page control was absent, 0 if none
    failedPage,        \* page whose fetch failed, 0 if none
    (* the profile-visiting phase *)
    mpc,               \* position of the caller: idle, mapping, unwinding, returned, raised
    tpc,               \* per task: queued, open, nodriver, visited, done, raised, cancelled
    thandler,          \* per task: thread_handler.driver, 0 for None, else the driver's number
    tdetails,          \* per task: profile_details
    temails,           \* per task: website_emails['emails']
    tfailed,           \* per task: what raised inside the task: none, setup, visit, quit
    outOfOrder,        \* some task ended while a task before it in the list had not
    drivers,           \* every driver set up by a task: [owner, state]
    sessionUsers,      \* fetch session -> profile tasks that fetched with it
    details,           \* details as returned
    emails,            \* emails as returned
    (* one visit observed, scrape() and the stages of run_pipeline after it *)
    vlog,              \* what the observed visit did, in order (history)
    urls_with_info,    \* the (index, url, total) tuples handed to the pool, <<>> before
    scraped_data,      \* scraped_data of run_pipeline: <<>> before scrape() returns
    ppc,               \* position of run_pipeline
    outputs,           \* the files run_pipeline has written
    (* the e-mail extraction engine *)
    ecall,             \* the call made to EmailExtractor: [method, ...arguments]
    eresult,           \* <<>> until the call returns, then <<its result>>
    (* one portal walked in both pagination modes *)
    site,              \* the portal's pages, in order: what each shows and how it fails
    walks              \* the results of the walks of site that have returned

walkVars == <<max_pages, wpc, current_page, links, main_driver, pages_scraped,
              pageRequests, extracted, seenHrefs, noNextPage, failedPage>>

crawlVars == <<mpc, tpc, thandler, tdetails, temails, tfailed, outOfOrder, drivers,
               sessionUsers, details, emails>>

pipeVars == <<urls_with_info, scraped_data, ppc, outputs>>

extractorVars == <<ecall, eresult>>

modeVars == <<site, walks>>

vars == <<engine, portal, company_profiles, walkVars, crawlVars, vlog, pipeVars,
          extractorVars, modeVars>>

Range(s) == {s[i] : i \in DOMAIN s}

(* ------------------------------- URLs ---------------------------------- *)

Paths == 1..MaxPath

\* An absolute profile URL on the portal's host.
AbsUrl(p) == [kind |-> "abs", path |-> p]

\* A relative href, to be resolved against base_url.
RelHref(p) == [kind |-> "rel", path |-> p]

\* element.get("href") of an element without (or with an empty) href.
NoHref == [kind |-> "none", path |-> 0]

Hrefs == {NoHref} \cup {AbsUrl(p) : p \in Paths} \cup {RelHref(p) : p \in Paths}

ProfileUrls == {AbsUrl(p) : p \in Paths}

\* urljoin(base_url, profile_url), applied when the href does not start with "http"
urljoin(h) == IF h.kind = "rel" THEN AbsUrl(h.path) ELSE h

\* The loop over company_elements: links with each element's resolved href added.
AddLinksOverwrite(ls, hs) == {urljoin(h) : h \in {x \in hs : x.kind # "none"}}

AddLinks(ls, hs) == ls \cup {urljoin(h) : h \in {x \in hs : x.kind # "none"}}

\* list(links): the elements of the set, each once, in an order Python chooses.
ListOf(S) == {s \in [1..Cardinality(S) -> S] : Range(s) = S}

(* --------------------------- initial states ---------------------------- *)

CrawlIdle ==
    /\ mpc = "idle"
    /\ tpc = <<>>
    /\ thandler = <<>>
    /\ tdetails = <<>>
    /\ temails = <<>>
    /\ tfailed = <<>>
    /\ outOfOrder = FALSE
    /\ drivers = <<>>
    /\ sessionUsers = {}
    /\ details = <<>>
    /\ emails = <<>>

\* No visit is observed and run_pipeline has not got past scraper.scrape().
PipelineIdle ==
    /\ vlog = <<>>
    /\ urls_with_info = <<>>
    /\ scraped_data = <<>>
    /\ ppc = "idle"
    /\ outputs = {}

\* No call to the e-mail extraction engine is being followed.
ExtractorIdle ==
    /\ ecall = [method |-> "none"]
    /\ eresult = <<>>

\* No portal is being walked in both pagination modes.
ModesIdle ==
    /\ site = <<>>
    /\ walks = <<>>

\* extract_company_profiles is entered: links = set(), current_page = 1.
WalkEntered ==
    /\ engine \in Engines
    /\ portal \in Portals
    /\ max_pages \in 0..MaxPagesArg
    /\ wpc = IF engine = "selenium" THEN "start" ELSE "loop"
    /\ current_page = 1
    /\ links = {}
    /\ main_driver = "none"
    /\ company_profiles = <<>>
    /\ pages_scraped = <<>>
    /\ pageRequests = <<>>
    /\ extracted = {}
    /\ seenHrefs = {}
    /\ noNextPage = 0
    /\ failedPage = 0
    /\ CrawlIdle

InitWalk ==
    /\ WalkEntered
    /\ PipelineIdle
    /\ ExtractorIdle
    /\ ModesIdle

(* ----------------------- extract_company_profiles ---------------------- *)

\* return list(links), current_page - 1  (RequestsScraper returns list(links) only)
WalkReturns(ls, page) ==
    /\ wpc' = "returned"
    /\ \E l \in ListOf(ls) : company_profiles' = l
    /\ pages_scraped' = IF engine = "selenium" THEN <<page - 1>> ELSE <<>>

\* Whether the iteration requests the page itself (driver.get / session.get);
\* on wlw the pages after the first are reached by the click of the iteration before.
Navigates == ~(engine = "selenium" /\ portal = "wlw" /\ current_page > 1)

\* driver = handler.setup_driver(...), before the loop and outside its try.
SetupDriver ==
    /\ wpc = "start"
    /\ wpc' = "loop"
    /\ main_driver' = "open"
    /\ UNCHANGED <<engine, portal, company_profiles, max_pages, current_page, links,
                   pages_scraped, pageRequests, extracted, seenHrefs, noNextPage,
                   failedPage, crawlVars, vlog, pipeVars,
                   extractorVars, modeVars>>

\* webdriver.Chrome(...) raises: nothing catches it in extract_company_profiles.
SetupDriverRaises ==
    /\ wpc = "start"
    /\ wpc' = "raised"
    /\ UNCHANGED <<engine, portal, company_profiles, max_pages, current_page, links,
                   main_driver, pages_scraped, pageRequests, extracted, seenHrefs,
                   noNextPage, failedPage, crawlVars, vlog, pipeVars,
                   extractorVars, modeVars>>

\* while current_page <= self.max_pages: the condition is false.
PageLimitReached ==
    /\ wpc = "loop"
    /\ current_page > max_pages
    /\ WalkReturns(links, current_page)
    /\ UNCHANGED <<engine, portal, max_pages, current_page, links, main_driver,
                   pageRequests, extracted, seenHrefs, noNextPage, failedPage,
                   crawlVars, vlog, pipeVars,
                   extractorVars, modeVars>>

\* The page's request raises (driver.get: WebDriverException; session.get or
\* raise_for_status: RequestException): logged, break.
PageFetchRaisesRetries ==
    /\ wpc = "loop"
    /\ current_page <= max_pages
    /\ Navigates
    /\ pageRequests' = Append(pageRequests, current_page)
    /\ failedPage' = current_page
    /\ UNCHANGED <<engine, portal, company_profiles, max_pages, wpc, current_page,
                   links, main_driver, pages_scraped, extracted, seenHrefs,
                   noNextPage, crawlVars, vlog, pipeVars,
                   extractorVars, modeVars>>

PageFetchRaises ==
    /\ wpc = "loop"
    /\ current_page <= max_pages
    /\ Navigates
    /\ pageRequests' = Append(pageRequests, current_page)
    /\ failedPage' = current_page
    /\ WalkReturns(links, current_page)
    /\ UNCHANGED <<engine, portal, max_pages, current_page, links, main_driver,
                   extracted, seenHrefs, noNextPage, crawlVars, vlog, pipeVars,
                   extractorVars, modeVars>>

\* WebDriverWait(driver, 10).until(presence of a profile link) times out (or
\* raises): warning, break.
PageWaitTimesOut ==
    /\ wpc = "loop"
    /\ current_page <= max_pages
    /\ engine = "selenium"
    /\ pageRequests' = IF Navigates THEN Append(pageRequests, current_page)
                       ELSE pageRequests
    /\ failedPage' = current_page
    /\ WalkReturns(links, current_page)
    /\ UNCHANGED <<engine, portal, max_pages, current_page, links, main_driver,
                   extracted, seenHrefs, noNextPage, crawlVars, vlog, pipeVars,
                   extractorVars, modeVars>>

\* if not company_elements and current_page == 1: warning, break.
FirstPageEmpty ==
    /\ wpc = "loop"
    /\ current_page <= max_pages
    /\ engine = "selenium"
    /\ current_page = 1
    /\ pageRequests' = Append(pageRequests, current_page)
    /\ WalkReturns(links, current_page)
    /\ UNCHANGED <<engine, portal, max_pages, current_page, links, main_driver,
                   extracted, seenHrefs, noNextPage, failedPage, crawlVars, vlog, pipeVars,
                   extractorVars, modeVars>>

\* The elements the selector finds on a page whose links are extracted: on the
\* browser backend's first page there is at least one (FirstPageEmpty otherwise).
PageElements ==
    IF engine = "selenium" /\ current_page = 1 THEN SUBSET Hrefs \ {{}}
    ELSE SUBSET Hrefs

\* pageRequests after an iteration that got as far as extracting the page:
\* the page's own request if the iteration made one, and the page the click
\* asks for if the next-page control was clicked (wlw only).
RequestsAfter(clicked) ==
    LET own == IF Navigates THEN Append(pageRequests, current_page)
               ELSE pageRequests
    IN IF clicked THEN Append(own, current_page + 1) ELSE own

\* The page is fetched and its links are added to links.
Extracts(hs, clicked) ==
    /\ wpc = "loop"
    /\ current_page <= max_pages
    /\ pageRequests' = RequestsAfter(clicked)
    /\ links' = AddLinks(links, hs)
    /\ extracted' = extracted \cup {current_page}
    /\ seenHrefs' = seenHrefs \cup hs

\* The iteration without current_page += 1: the control is found and the loop
\* goes round on the same page number.
PageWithNextStays ==
    \E hs \in PageElements :
        /\ Extracts(hs, engine = "selenium" /\ portal = "wlw")
        /\ UNCHANGED <<engine, portal, company_profiles, max_pages, wpc, current_page,
                       main_driver, pages_scraped, noNextPage, failedPage, crawlVars,
                       vlog, pipeVars, extractorVars, modeVars>>

\* The next-page control is found: on wlw it is clicked; current_page += 1.
PageWithNext ==
    \E hs \in PageElements :
        /\ Extracts(hs, engine = "selenium" /\ portal = "wlw")
        /\ current_page' = current_page + 1
        /\ UNCHANGED <<engine, portal, company_profiles, max_pages, wpc, main_driver,
                       pages_scraped, noNextPage, failedPage, crawlVars, vlog, pipeVars,
                   extractorVars, modeVars>>

\* The next-page control is absent (NoSuchElementException; select_one returns
\* None): warning, break.
PageWithoutNextGoesOn ==
    \E hs \in PageElements :
        /\ Extracts(hs, FALSE)
        /\ noNextPage' = current_page
        /\ current_page' = current_page + 1
        /\ UNCHANGED <<engine, portal, company_profiles, max_pages, wpc, main_driver,
                       pages_scraped, failedPage, crawlVars, vlog, pipeVars,
                   extractorVars, modeVars>>

PageWithoutNext ==
    \E hs \in PageElements :
        /\ Extracts(hs, FALSE)
        /\ noNextPage' = current_page
        /\ WalkReturns(links', current_page)
        /\ UNCHANGED <<engine, portal, max_pages, current_page, main_driver,
                       failedPage, crawlVars, vlog, pipeVars,
                   extractorVars, modeVars>>

\* find_element or the click raises something else than NoSuchElementException:
\* the outer except logs it, break.
NextControlRaises ==
    \E hs \in PageElements :
        /\ engine = "selenium"
        /\ Extracts(hs, FALSE)
        /\ WalkReturns(links', current_page)
        /\ UNCHANGED <<engine, portal, max_pages, current_page, main_driver,
                       noNextPage, failedPage, crawlVars, vlog, pipeVars,
                   extractorVars, modeVars>>

\* The portal's pages link to the profiles by absolute URLs only (the hrefs
\* urljoin resolves and the elements without href are followed in SpecWalk).
AbsoluteLinksOnly == seenHrefs' \subseteq ProfileUrls

NextWalk ==
    \/ SetupDriver
    \/ SetupDriverRaises
    \/ PageLimitReached
    \/ PageFetchRaises
    \/ PageWaitTimesOut
    \/ FirstPageEmpty
    \/ PageWithNext
    \/ PageWithoutNext
    \/ NextControlRaises

SpecWalk == InitWalk /\ [][NextWalk]_vars

\* The walk is sequential code whose calls return, raise or time out
\* (session.get(timeout=10), WebDriverWait(driver, 10), the driver's page-load
\* timeout): a step that can be taken is taken.
NextWalkLive ==
    \/ SetupDriver
    \/ SetupDriverRaises
    \/ PageLimitReached
    \/ PageFetchRaises
    \/ PageWaitTimesOut
    \/ FirstPageEmpty
    \/ PageWithNext /\ AbsoluteLinksOnly
    \/ PageWithoutNext /\ AbsoluteLinksOnly
    \/ NextControlRaises /\ AbsoluteLinksOnly

SpecWalkLive == InitWalk /\ [][NextWalkLive]_vars /\ WF_vars(NextWalkLive)

(* ------------- one portal walked in both pagination modes -------------- *)

\* The profile links of a page: one of the profiles, or all of them.
SiteLinks == {{AbsUrl(p)} : p \in Paths} \cup {ProfileUrls}

\* A page that cannot be fetched (network error, timeout).
Unreachable ==
    [load |-> "unreachable", hrefs |-> {}, next |-> "absent", advance |-> "ok"]

\* A page that loads without any profile link.
Barren == [load |-> "barren", hrefs |-> {}, next |-> "absent", advance |-> "ok"]

\* A page with profile links. Its next-page control is present, absent, or the
\* lookup of it raises; with the control present, the step to the next page
\* works or fails: on wlw the step is the click on the control, elsewhere the
\* request of the next page's URL.
LinkPages ==
    {[load |-> "ok", hrefs |-> h, next |-> n, advance |-> a] :
        h \in SiteLinks, n \in {"present", "absent", "raises"}, a \in {"ok"}}
    \cup {[load |-> "ok", hrefs |-> h, next |-> "present", advance |-> "fails"] :
            h \in SiteLinks}

\* The walk gets from page p to the page after it.
Continues(p) == p.load = "ok" /\ p.next = "present" /\ p.advance = "ok"

\* The portals of MaxSitePages pages; the page after one the walk cannot get
\* beyond is unreachable.
Sites ==
    {s \in [1..MaxSitePages -> {Unreachable, Barren} \cup LinkPages] :
        \A k \in 1..(MaxSitePages - 1) : ~Continues(s[k]) => s[k + 1] = Unreachable}

InitModes ==
    /\ WalkEntered
    /\ engine = "selenium"
    /\ max_pages <= MaxSitePages
    /\ PipelineIdle
    /\ ExtractorIdle
    /\ site \in Sites
    /\ walks = <<>>

\* The iteration is on a page of the given kind.
OnPage(load) ==
    /\ wpc = "loop"
    /\ current_page <= max_pages
    /\ site[current_page].load = load

\* The link elements the iteration finds are those of the site's page.
ShowsSitePage == seenHrefs' = seenHrefs \cup site[current_page].hrefs

\* The portal is paginated by clicking the next-page control.
Clicks == portal = "wlw"

\* A second scraper walks the same site with the other portal's pagination;
\* what the first walk returned is kept.
WalkInOtherMode ==
    /\ wpc = "returned"
    /\ walks = <<>>
    /\ walks' = <<[portal |-> portal, links |-> Range(company_profiles),
                   pages_scraped |-> pages_scraped]>>
    /\ portal' = CHOOSE p \in Portals : p # portal
    /\ wpc' = "start"
    /\ current_page' = 1
    /\ links' = {}
    /\ main_driver' = "none"
    /\ company_profiles' = <<>>
    /\ pages_scraped' = <<>>
    /\ pageRequests' = <<>>
    /\ extracted' = {}
    /\ seenHrefs' = {}
    /\ noNextPage' = 0
    /\ failedPage' = 0
    /\ UNCHANGED <<engine, max_pages, crawlVars, vlog, pipeVars, extractorVars, site>>

NextModes ==
    \/ SetupDriver
    \/ PageLimitReached
    \/ OnPage("unreachable") /\ PageFetchRaises
    \/ (OnPage("barren") \/ (OnPage("unreachable") /\ ~Navigates)) /\ PageWaitTimesOut
    \/ /\ OnPage("ok")
       /\ site[current_page].next = "present"
       /\ Clicks => site[current_page].advance = "ok"
       /\ PageWithNext
       /\ ShowsSitePage
    \/ /\ OnPage("ok")
       /\ site[current_page].next = "absent"
       /\ PageWithoutNext
       /\ ShowsSitePage
    \/ /\ OnPage("ok")
       /\ \/ site[current_page].next = "raises"
          \/ Clicks /\ site[current_page].advance = "fails"
       /\ NextControlRaises
       /\ ShowsSitePage
    \/ WalkInOtherMode

SpecModes == InitModes /\ [][NextModes]_vars

(* ===================== the profile-visiting phase ====================== *)

\* An optional value: <<>> is None, <<v>> is the value v.
None == <<>>

\* What the page of profile i shows in a field: the text stands for the profile.
TextOf(i) == <<i>>

\* The non-empty list extract_and_filter_emails returns for a page with addresses.
\* What extract_and_filter_emails returns for the website's main page and for
\* its contact page, when it returns any address.
MainPageEmails == <<"info@acme.com">>

ContactPageEmails == <<"sales@acme.com">>

\* profile_details as _process_single_profile creates it.
DefaultDetails ==
    [name |-> None, address |-> None, country |-> None, website |-> None,
     email_source |-> "not_found"]

\* website_emails as both backends create it.
DefaultEmails == [emails |-> <<>>]

\* The steps of one visit, in the order of the code. A scenario's failAt is the
\* step that raises an exception the step itself does not handle ("none": no
\* step does); a selector that does not match is no failure.
FailSteps == {"get", "cookie", "name", "address", "country", "website", "main",
              "contact", "none"}

StepNo(s) ==
    CASE s = "get" -> 1 [] s = "cookie" -> 2 [] s = "name" -> 3
      [] s = "address" -> 4 [] s = "country" -> 5 [] s = "website" -> 6
      [] s = "main" -> 7 [] s = "contact" -> 8 [] s = "none" -> 9

\* Step s ran to its end in scenario sc.
Completed(sc, s) == StepNo(s) < StepNo(sc.failAt)

\* What the environment does to one visit: which step raises, which selectors
\* match, whether the website link has an href, whether the main page and the
\* contact page yield addresses, whether a contact link is found. A field that
\* the visit never reads is left at FALSE / "absent".
Scenarios ==
    {sc \in [failAt : FailSteps, name : BOOLEAN, address : BOOLEAN,
             country : BOOLEAN, website : {"absent", "nohref", "url"},
             mainEmails : BOOLEAN, contactLink : BOOLEAN, contactEmails : BOOLEAN] :
        /\ sc.name => Completed(sc, "name")
        /\ sc.address => Completed(sc, "address")
        /\ sc.country => Completed(sc, "country")
        /\ sc.website # "absent" => Completed(sc, "website")
        /\ sc.failAt \in {"main", "contact"} => sc.website = "url"
        /\ sc.mainEmails => (sc.website = "url" /\ Completed(sc, "main"))
        /\ sc.contactLink =>
              (sc.website = "url" /\ Completed(sc, "main") /\ ~sc.mainEmails)
        /\ sc.failAt = "contact" => sc.contactLink
        /\ sc.contactEmails => (sc.contactLink /\ Completed(sc, "contact"))}

\* The browser backend's visit has every step.
SeleniumScenarios == Scenarios

\* The HTTP backend has no cookie banner, and its selector lookups (select_one)
\* return None instead of raising.
RequestsScenarios == {sc \in Scenarios : sc.failAt \in {"get", "main", "contact", "none"}}

\* profile_details when the try block of _process_single_profile is left.
SeleniumDetailsSourceByPage(i, sc) ==
    [name |-> IF sc.name THEN TextOf(i) ELSE None,
     address |-> IF sc.address THEN TextOf(i) ELSE None,
     country |-> IF sc.country THEN TextOf(i) ELSE None,
     website |-> IF sc.website = "url" THEN TextOf(i) ELSE None,
     email_source |-> IF sc.mainEmails THEN "main_page"
                      ELSE IF sc.contactLink THEN "contact_page"
                      ELSE "not_found"]

\* profile_details if one try block held the four lookups: the first selector
\* that does not match ends them.
SeleniumDetailsOneTry(i, sc) ==
    [name |-> IF sc.name THEN TextOf(i) ELSE None,
     address |-> IF sc.name /\ sc.address THEN TextOf(i) ELSE None,
     country |-> IF sc.name /\ sc.address /\ sc.country THEN TextOf(i) ELSE None,
     website |-> IF sc.name /\ sc.address /\ sc.country /\ sc.website = "url"
                 THEN TextOf(i) ELSE None,
     email_source |-> IF sc.mainEmails THEN "main_page"
                      ELSE IF sc.contactEmails THEN "contact_page"
                      ELSE "not_found"]

SeleniumDetails(i, sc) ==
    [name |-> IF sc.name THEN TextOf(i) ELSE None,
     address |-> IF sc.address THEN TextOf(i) ELSE None,
     country |-> IF sc.country THEN TextOf(i) ELSE None,
     website |-> IF sc.website = "url" THEN TextOf(i) ELSE None,
     email_source |-> IF sc.mainEmails THEN "main_page"
                      ELSE IF sc.contactEmails THEN "contact_page"
                      ELSE "not_found"]

\* profile_details of the HTTP backend: it has no email_source key.
RequestsDetails(i, sc) ==
    [name |-> IF sc.name THEN TextOf(i) ELSE None,
     address |-> IF sc.address THEN TextOf(i) ELSE None,
     country |-> IF sc.country THEN TextOf(i) ELSE None,
     website |-> IF sc.website = "url" THEN TextOf(i) ELSE None]

\* website_emails['emails'] = found_emails, reached only when neither the
\* website fetch nor the contact-page fetch raised.
VisitEmails(sc) ==
    [emails |-> IF sc.mainEmails THEN MainPageEmails
                ELSE IF sc.contactEmails THEN ContactPageEmails
                ELSE <<>>]

\* What a visit leaves behind: the two records and whether a step raised.
Outcome(d, sc) ==
    [details |-> d, emails |-> VisitEmails(sc),
     failed |-> IF sc.failAt = "none" THEN "none" ELSE "visit"]

SeleniumOutcomes(i) == {Outcome(SeleniumDetails(i, sc), sc) : sc \in SeleniumScenarios}

RequestsOutcomes(i) == {Outcome(RequestsDetails(i, sc), sc) : sc \in RequestsScenarios}

\* The step is begun: no earlier step raised.
Attempted(sc, s) == StepNo(s) <= StepNo(sc.failAt)

\* An entry of the visit's history: a page fetch, a wait, the search for the
\* contact link or the exception that ended the visit, and the page, field or
\* step it is about.
Event(op, on) == [op |-> op, on |-> on, found |-> <<>>]

\* extract_and_filter_emails applied to the source of a page, and its result.
Extraction(on, found) == [op |-> "extract", on |-> on, found |-> found]

\* A selector lookup and whether it gave the field a value: the element was
\* found (and, for the website link, has an href).
Lookup(on, matched) ==
    [op |-> "lookup", on |-> on, found |-> IF matched THEN <<"text">> ELSE <<>>]

If(cond, events) == IF cond THEN events ELSE <<>>

\* The visit without `if not found_emails`: the contact page is looked for
\* and requested also when the main page yielded addresses.
SeleniumLogContactAlways(sc) ==
    <<Event("get", "profile")>>
    \o If(Attempted(sc, "cookie"), <<Event("wait", "cookie_banner")>>)
    \o If(Attempted(sc, "name"), <<Lookup("name", sc.name)>>)
    \o If(Attempted(sc, "address"), <<Lookup("address", sc.address)>>)
    \o If(Attempted(sc, "country"), <<Lookup("country", sc.country)>>)
    \o If(Attempted(sc, "website"), <<Lookup("website", sc.website = "url")>>)
    \o If(sc.website = "url", <<Event("get", "website")>>)
    \o If(sc.website = "url" /\ Completed(sc, "main"),
          <<Extraction("website", IF sc.mainEmails THEN MainPageEmails ELSE <<>>),
            Event("find_contact_link", "website")>>)
    \o If(sc.contactLink \/ sc.mainEmails, <<Event("get", "contact_page")>>)
    \o If(sc.contactLink /\ Completed(sc, "contact"),
          <<Extraction("contact_page",
                       IF sc.contactEmails THEN ContactPageEmails ELSE <<>>)>>)
    \o If(sc.failAt # "none", <<Event("raised", sc.failAt)>>)

\* What _process_single_profile does after setup_driver, in order. The driver
\* shows the company website when find_element looks for the contact link.
SeleniumLog(sc) ==
    <<Event("get", "profile")>>
    \o If(Attempted(sc, "cookie"), <<Event("wait", "cookie_banner")>>)
    \o If(Attempted(sc, "name"), <<Lookup("name", sc.name)>>)
    \o If(Attempted(sc, "address"), <<Lookup("address", sc.address)>>)
    \o If(Attempted(sc, "country"), <<Lookup("country", sc.country)>>)
    \o If(Attempted(sc, "website"), <<Lookup("website", sc.website = "url")>>)
    \o If(sc.website = "url", <<Event("get", "website")>>)
    \o If(sc.website = "url" /\ Completed(sc, "main"),
          <<Extraction("website", IF sc.mainEmails THEN MainPageEmails ELSE <<>>)>>)
    \o If(sc.website = "url" /\ Completed(sc, "main") /\ ~sc.mainEmails,
          <<Event("find_contact_link", "website")>>)
    \o If(sc.contactLink, <<Event("get", "contact_page")>>)
    \o If(sc.contactLink /\ Completed(sc, "contact"),
          <<Extraction("contact_page",
                       IF sc.contactEmails THEN ContactPageEmails ELSE <<>>)>>)
    \o If(sc.failAt # "none", <<Event("raised", sc.failAt)>>)

\* What one iteration of the loop of extract_details_and_emails does, in
\* order. soup is the parsed profile page when soup.find looks for the
\* contact link.
RequestsLog(sc) ==
    <<Event("get", "profile")>>
    \o If(Completed(sc, "get"),
          <<Lookup("name", sc.name), Lookup("address", sc.address),
            Lookup("country", sc.country), Lookup("website", sc.website = "url")>>)
    \o If(sc.website = "url", <<Event("get", "website")>>)
    \o If(sc.website = "url" /\ Completed(sc, "main"),
          <<Extraction("website", IF sc.mainEmails THEN MainPageEmails ELSE <<>>)>>)
    \o If(sc.website = "url" /\ Completed(sc, "main") /\ ~sc.mainEmails,
          <<Event("find_contact_link", "profile")>>)
    \o If(sc.contactLink, <<Event("get", "contact_page")>>)
    \o If(sc.contactLink /\ Completed(sc, "contact"),
          <<Extraction("contact_page",
                       IF sc.contactEmails THEN ContactPageEmails ELSE <<>>)>>)
    \o If(sc.failAt # "none", <<Event("raised", sc.failAt)>>)

\* An outcome together with the history of the visit that produced it.
Observed(o, log) ==
    [details |-> o.details, emails |-> o.emails, failed |-> o.failed, log |-> log]

SeleniumVisits(i) ==
    {Observed(Outcome(SeleniumDetails(i, sc), sc), SeleniumLog(sc)) :
        sc \in SeleniumScenarios}

RequestsVisits(i) ==
    {Observed(Outcome(RequestsDetails(i, sc), sc), RequestsLog(sc)) :
        sc \in RequestsScenarios}

\* The session a fetch goes through.
DriverSession(d) == [kind |-> "driver", id |-> d]

\* self.session of RequestsScraper, created once in __init__.
ScraperSession == [kind |-> "session", id |-> 0]

N == Len(company_profiles)

Tasks == 1..N

Ended(i) == tpc[i] \in {"done", "raised", "cancelled"}

\* The tasks a pool thread is running.
Running == {i \in Tasks : tpc[i] = "open"}

\* Task i ends while a task before it has not ended.
EndsOutOfOrder(i) == outOfOrder \/ \E j \in 1..(i - 1) : ~Ended(j)

\* extract_details_and_emails(_parallel) is entered with a list of n distinct
\* profile URLs, the walk having returned the page count pages; the browser
\* backend has handed every task to the executor.
\* (The wlw portal's button-then-link lookup of the website has the outcomes
\* of the plain lookup: a timeout leaves the field absent, anything else is
\* caught by the outer except.)
CrawlEntered(n, pages) ==
    /\ portal = "europages"
    /\ company_profiles = [i \in 1..n |-> AbsUrl(i)]
    /\ max_pages = 0
    /\ wpc = "returned"
    /\ current_page = 1
    /\ links = Range(company_profiles)
    /\ main_driver = "none"
    /\ pages_scraped = pages
    /\ pageRequests = <<>>
    /\ extracted = {}
    /\ seenHrefs = {}
    /\ noNextPage = 0
    /\ failedPage = 0
    /\ mpc = IF engine = "selenium" THEN "mapping" ELSE "looping"
    /\ tpc = [i \in Tasks |-> "queued"]
    /\ thandler = [i \in Tasks |-> 0]
    /\ tdetails = [i \in Tasks |-> DefaultDetails]
    /\ temails = [i \in Tasks |-> DefaultEmails]
    /\ tfailed = [i \in Tasks |-> "none"]
    /\ outOfOrder = FALSE
    /\ drivers = <<>>
    /\ sessionUsers = {}
    /\ details = <<>>
    /\ emails = <<>>

InitCrawl ==
    /\ engine \in Engines
    /\ \E n \in 0..MaxProfiles : CrawlEntered(n, <<>>)
    /\ PipelineIdle
    /\ ExtractorIdle
    /\ ModesIdle

\* A pool thread takes the oldest queued task while fewer than max_workers run.
CanStartUnbounded(i) ==
    /\ engine = "selenium"
    /\ mpc \in {"mapping", "unwinding"}
    /\ tpc[i] = "queued"
    /\ \A j \in 1..(i - 1) : tpc[j] # "queued"

CanStart(i) ==
    /\ engine = "selenium"
    /\ mpc \in {"mapping", "unwinding"}
    /\ tpc[i] = "queued"
    /\ \A j \in 1..(i - 1) : tpc[j] # "queued"
    /\ Cardinality(Running) < MaxWorkers

\* _process_single_profile up to driver = thread_handler.setup_driver(...).
TaskSetup(i) ==
    /\ CanStart(i)
    /\ drivers' = Append(drivers, [owner |-> i, state |-> "open"])
    /\ thandler' = [thandler EXCEPT ![i] = Len(drivers) + 1]
    /\ tpc' = [tpc EXCEPT ![i] = "open"]
    /\ UNCHANGED <<engine, portal, company_profiles, walkVars, vlog, pipeVars,
                   extractorVars, modeVars, mpc, tdetails,
                   temails, tfailed, outOfOrder, sessionUsers, details, emails>>

\* setup_driver raises: the outer except logs it, close_driver finds no driver,
\* and the task returns its default records.
TaskSetupRaises(i) ==
    /\ CanStart(i)
    /\ tfailed' = [tfailed EXCEPT ![i] = "setup"]
    /\ tpc' = [tpc EXCEPT ![i] = "done"]
    /\ outOfOrder' = EndsOutOfOrder(i)
    /\ UNCHANGED <<engine, portal, company_profiles, walkVars, vlog, pipeVars,
                   extractorVars, modeVars, mpc, thandler,
                   tdetails, temails, drivers, sessionUsers, details, emails>>

\* SeleniumHandler.close_driver: if self.driver: self.driver.quit(); self.driver = None.
\* When quit() raises, the driver is recorded as quit_failed and the handler
\* keeps its reference.
close_driver(i, quitRaises) ==
    IF thandler[i] = 0
    THEN /\ UNCHANGED <<drivers, thandler>>
    ELSE /\ drivers' = [drivers EXCEPT ![thandler[i]].state =
                            IF quitRaises THEN "quit_failed" ELSE "quit"]
         /\ thandler' = [thandler EXCEPT ![i] = IF quitRaises THEN @ ELSE 0]

\* The finally clause of _process_single_profile.
FinallyOnlyOnSuccess(i, o, quitRaises) ==
    IF o.failed = "none" THEN close_driver(i, quitRaises)
    ELSE UNCHANGED <<drivers, thandler>>

Finally(i, o, quitRaises) == close_driver(i, quitRaises)

\* _process_single_profile from driver.get(profile_url) to its end: the visit,
\* the finally clause, and the return. When quit() raises in the finally
\* clause the exception leaves the task and its two records are lost with it.
\* The visit is one of visits; its history is kept when it is observed.
TaskRunOf(i, visits, observed) ==
    /\ engine = "selenium"
    /\ tpc[i] = "open"
    /\ \E o \in visits, quitRaises \in BOOLEAN :
        /\ sessionUsers' = sessionUsers \cup
                              {[session |-> DriverSession(thandler[i]), task |-> i]}
        /\ Finally(i, o, quitRaises)
        /\ vlog' = IF observed THEN o.log ELSE vlog
        /\ IF quitRaises
           THEN /\ tpc' = [tpc EXCEPT ![i] = "raised"]
                /\ tfailed' = [tfailed EXCEPT ![i] = "quit"]
                /\ UNCHANGED <<tdetails, temails>>
           ELSE /\ tpc' = [tpc EXCEPT ![i] = "done"]
                /\ tfailed' = [tfailed EXCEPT ![i] = o.failed]
                /\ tdetails' = [tdetails EXCEPT ![i] = o.details]
                /\ temails' = [temails EXCEPT ![i] = o.emails]
    /\ outOfOrder' = EndsOutOfOrder(i)
    /\ UNCHANGED <<engine, portal, company_profiles, walkVars, pipeVars,
                   extractorVars, modeVars, mpc, details, emails>>

TaskRun(i) == TaskRunOf(i, SeleniumOutcomes(i), FALSE)

\* The task whose result is at position k of list(executor.map(...)): map
\* yields the results in the order of the input list.
ReversedOrder(k) == N + 1 - k

ResultOrder(k) == k

\* list(executor.map(...)) meets a task that raised, every task before it
\* having returned: the exception leaves list(...), and the iterator cancels
\* the tasks no thread has taken yet.
MapRaises(i) ==
    /\ mpc = "mapping"
    /\ tpc[i] = "raised"
    /\ \A j \in 1..(i - 1) : tpc[j] = "done"
    /\ mpc' = "unwinding"
    /\ tpc' = [j \in Tasks |-> IF tpc[j] = "queued" THEN "cancelled" ELSE tpc[j]]
    /\ UNCHANGED <<engine, portal, company_profiles, walkVars, vlog, pipeVars,
                   extractorVars, modeVars, thandler, tdetails,
                   temails, tfailed, outOfOrder, drivers, sessionUsers, details,
                   emails>>

\* The with block ends (shutdown(wait=True)) while the exception propagates
\* out of extract_details_and_emails_parallel.
MapUnwinds ==
    /\ mpc = "unwinding"
    /\ \A i \in Tasks : Ended(i)
    /\ mpc' = "raised"
    /\ UNCHANGED <<engine, portal, company_profiles, walkVars, vlog, pipeVars,
                   extractorVars, modeVars, tpc, thandler,
                   tdetails, temails, tfailed, outOfOrder, drivers, sessionUsers,
                   details, emails>>

\* Every task returned: list(...) holds their results, the with block ends,
\* and the loop over results appends each pair to details and emails.
MapReturns ==
    /\ mpc = "mapping"
    /\ \A i \in Tasks : tpc[i] = "done"
    /\ details' = [k \in 1..N |-> tdetails[ResultOrder(k)]]
    /\ emails' = [k \in 1..N |-> temails[ResultOrder(k)]]
    /\ mpc' = "returned"
    /\ UNCHANGED <<engine, portal, company_profiles, walkVars, vlog, pipeVars,
                   extractorVars, modeVars, tpc, thandler,
                   tdetails, temails, tfailed, outOfOrder, drivers, sessionUsers>>

\* One iteration of the for loop of RequestsScraper.extract_details_and_emails:
\* the visit of the next profile through self.session, and the two appends.
\* The visit's history is kept when it is observed.
RequestsVisitOf(observed) ==
    /\ engine = "requests"
    /\ mpc = "looping"
    /\ Len(details) < N
    /\ LET i == Len(details) + 1 IN
        \E o \in IF observed THEN RequestsVisits(i) ELSE RequestsOutcomes(i) :
            /\ sessionUsers' = sessionUsers \cup
                                  {[session |-> ScraperSession, task |-> i]}
            /\ vlog' = IF observed THEN o.log ELSE vlog
            /\ tdetails' = [tdetails EXCEPT ![i] = o.details]
            /\ temails' = [temails EXCEPT ![i] = o.emails]
            /\ tfailed' = [tfailed EXCEPT ![i] = o.failed]
            /\ tpc' = [tpc EXCEPT ![i] = "done"]
            /\ details' = Append(details, o.details)
            /\ emails' = Append(emails, o.emails)
    /\ UNCHANGED <<engine, portal, company_profiles, walkVars, pipeVars,
                   extractorVars, modeVars, mpc, thandler, outOfOrder, drivers>>

RequestsVisit == RequestsVisitOf(FALSE)

\* The for loop is over: return details, emails.
RequestsReturns ==
    /\ engine = "requests"
    /\ mpc = "looping"
    /\ Len(details) = N
    /\ mpc' = "returned"
    /\ UNCHANGED <<engine, portal, company_profiles, walkVars, vlog, pipeVars,
                   extractorVars, modeVars, tpc, thandler,
                   tdetails, temails, tfailed, outOfOrder, drivers, sessionUsers,
                   details, emails>>

NextCrawl ==
    \/ \E i \in Tasks : TaskSetup(i)
    \/ \E i \in Tasks : TaskSetupRaises(i)
    \/ \E i \in Tasks : TaskRun(i)
    \/ \E i \in Tasks : MapRaises(i)
    \/ MapUnwinds
    \/ MapReturns
    \/ RequestsVisit
    \/ RequestsReturns

SpecCrawl == InitCrawl /\ [][NextCrawl]_vars

(* ---------------------- the thread pool under load ---------------------- *)

\* A visit in which nothing raises and the profile page shows no field.
BareVisit ==
    [failAt |-> "none", name |-> FALSE, address |-> FALSE, country |-> FALSE,
     website |-> "absent", mainEmails |-> FALSE, contactLink |-> FALSE,
     contactEmails |-> FALSE]

PoolOutcomes(i) == {Outcome(SeleniumDetails(i, BareVisit), BareVisit)}

\* extract_details_and_emails_parallel is entered with up to MaxPoolProfiles
\* profile URLs, more than the pool has workers.
InitPool ==
    /\ engine = "selenium"
    /\ \E n \in 0..MaxPoolProfiles : CrawlEntered(n, <<>>)
    /\ PipelineIdle
    /\ ExtractorIdle
    /\ ModesIdle

\* _process_single_profile on a bare profile page; every driver starts, and
\* quit() may still raise.
PoolTaskRun(i) == TaskRunOf(i, PoolOutcomes(i), FALSE)

NextPool ==
    \/ \E i \in Tasks : TaskSetup(i)
    \/ \E i \in Tasks : PoolTaskRun(i)
    \/ \E i \in Tasks : MapRaises(i)
    \/ MapUnwinds
    \/ MapReturns

SpecPool == InitPool /\ [][NextPool]_vars

(* ------------- one observed run: visit, scrape(), pipeline -------------- *)

\* run_pipeline has called scraper.scrape(); the walk returned one profile URL
\* (and, in the browser backend, a page count), and the profile-visiting
\* phase is entered. The visit of that profile is observed step by step.
InitVisit ==
    /\ engine \in Engines
    /\ \E p \in 0..MaxPagesArg :
          CrawlEntered(1, IF engine = "selenium" THEN <<p>> ELSE <<>>)
    /\ vlog = <<>>
    /\ urls_with_info = <<>>
    /\ scraped_data = <<>>
    /\ ppc = "scraping"
    /\ outputs = {}
    /\ ExtractorIdle
    /\ ModesIdle

ObservedTaskRun == TaskRunOf(1, SeleniumVisits(1), TRUE)

ObservedRequestsVisit == RequestsVisitOf(TRUE)

\* The dict scrape() returns: the browser backend's has four keys, the HTTP
\* backend's has no "pages_scraped".
ScrapeResult ==
    IF engine = "selenium"
    THEN [company_profiles |-> company_profiles, details |-> details,
          emails |-> emails, pages_scraped |-> pages_scraped[1]]
    ELSE [company_profiles |-> company_profiles, details |-> details,
          emails |-> emails]

\* scraped_data = scraper.scrape()
ScrapeReturns ==
    /\ ppc = "scraping"
    /\ mpc = "returned"
    /\ scraped_data' = <<ScrapeResult>>
    /\ ppc' = "saving"
    /\ UNCHANGED <<engine, portal, company_profiles, walkVars, crawlVars, vlog,
                   urls_with_info, outputs, extractorVars, modeVars>>

\* scraper.scrape() raises what the profile-visiting phase raised: the try
\* block of run_pipeline is left for its finally clause.
ScrapeRaises ==
    /\ ppc = "scraping"
    /\ mpc = "raised"
    /\ ppc' = "unwinding"
    /\ UNCHANGED <<engine, portal, company_profiles, walkVars, crawlVars, vlog,
                   urls_with_info, scraped_data, outputs, extractorVars, modeVars>>

\* The CSV files stages 1 to 3 write; save_to_csv writes nothing for an empty
\* list, and process_scraped_data drops the records without a company name.
SavedFiles(data) ==
    (IF Len(data.company_profiles) > 0 THEN {"links"} ELSE {})
    \cup (IF \E k \in DOMAIN data.emails : data.emails[k].emails # <<>>
          THEN {"emails"} ELSE {})
    \cup (IF \E k \in DOMAIN data.details : data.details[k].name # None
          THEN {"detailed"} ELSE {})

\* Stages 1 to 3 of run_pipeline: the links file, the records built from
\* details, emails and company_profiles by index, the e-mail file, the
\* detailed file and the statistics.
PipelineSaves ==
    /\ ppc = "saving"
    /\ outputs' = outputs \cup SavedFiles(scraped_data[1])
    /\ ppc' = "summarising"
    /\ UNCHANGED <<engine, portal, company_profiles, walkVars, crawlVars, vlog,
                   urls_with_info, scraped_data, extractorVars, modeVars>>

\* Stage 4: generate_summary_log(..., pages_scraped=scraped_data["pages_scraped"],
\* ...). The subscript raises KeyError when the dict has no such key.
PipelineSummary ==
    /\ ppc = "summarising"
    /\ IF "pages_scraped" \in DOMAIN scraped_data[1]
       THEN /\ outputs' = outputs \cup {"summary"}
            /\ ppc' = "finishing"
       ELSE /\ ppc' = "unwinding"
            /\ UNCHANGED outputs
    /\ UNCHANGED <<engine, portal, company_profiles, walkVars, crawlVars, vlog,
                   urls_with_info, scraped_data, extractorVars, modeVars>>

\* The finally clause of run_pipeline (SeleniumScraper has no attribute
\* handler, so nothing is closed), then the return or the pending exception.
PipelineFinally ==
    /\ ppc \in {"finishing", "unwinding"}
    /\ ppc' = IF ppc = "finishing" THEN "completed" ELSE "raised"
    /\ UNCHANGED <<engine, portal, company_profiles, walkVars, crawlVars, vlog,
                   urls_with_info, scraped_data, outputs, extractorVars, modeVars>>

NextVisit ==
    \/ TaskSetup(1)
    \/ TaskSetupRaises(1)
    \/ ObservedTaskRun
    \/ MapRaises(1)
    \/ MapUnwinds
    \/ MapReturns
    \/ ObservedRequestsVisit
    \/ RequestsReturns
    \/ ScrapeReturns
    \/ ScrapeRaises
    \/ PipelineSaves
    \/ PipelineSummary
    \/ PipelineFinally

SpecVisit == InitVisit /\ [][NextVisit]_vars

(* ------------- scrape() of the browser backend, end to end -------------- *)

\* run_pipeline has called SeleniumScraper.scrape(), which has created
\* main_handler and entered extract_company_profiles.
InitScrape ==
    /\ WalkEntered
    /\ engine = "selenium"
    /\ max_pages <= MaxScrapePages
    /\ vlog = <<>>
    /\ urls_with_info = <<>>
    /\ scraped_data = <<>>
    /\ ppc = "scraping"
    /\ outputs = {}
    /\ ExtractorIdle
    /\ ModesIdle

\* extract_company_profiles returned; the finally clause of scrape() leaves
\* the discovery driver in the given state, and
\* extract_details_and_emails_parallel(company_profiles) builds urls_with_info
\* and opens the pool.
EntersPool(driver_state) ==
    /\ ppc = "scraping"
    /\ wpc = "returned"
    /\ mpc = "idle"
    /\ main_driver = "open"
    /\ main_driver' = driver_state
    /\ urls_with_info' = [i \in 1..N |-> <<i, company_profiles[i], N>>]
    /\ mpc' = "mapping"
    /\ tpc' = [i \in Tasks |-> "queued"]
    /\ thandler' = [i \in Tasks |-> 0]
    /\ tdetails' = [i \in Tasks |-> DefaultDetails]
    /\ temails' = [i \in Tasks |-> DefaultEmails]
    /\ tfailed' = [i \in Tasks |-> "none"]
    /\ UNCHANGED <<engine, portal, company_profiles, max_pages, wpc, current_page,
                   links, pages_scraped, pageRequests, extracted, seenHrefs,
                   noNextPage, failedPage, outOfOrder, drivers, sessionUsers,
                   details, emails, vlog, scraped_data, ppc, outputs,
                   extractorVars, modeVars>>

\* scrape() without main_handler.close_driver() before the pool.
ScrapeEntersPoolDriverOpen == EntersPool("open")

\* main_handler.close_driver() quits the discovery driver, then the pool opens.
ScrapeEntersPool == EntersPool("closed")

\* The finally clause of scrape() with an exception on its way out:
\* setup_driver raised in extract_company_profiles and close_driver finds no
\* driver, or quit() of the discovery driver raises. scrape() raises and the
\* pool is never opened.
ScrapeRaisesInWalk ==
    /\ ppc = "scraping"
    /\ mpc = "idle"
    /\ \/ wpc = "raised" /\ main_driver = "none" /\ UNCHANGED main_driver
       \/ wpc = "returned" /\ main_driver = "open" /\ main_driver' = "quit_failed"
    /\ ppc' = "unwinding"
    /\ UNCHANGED <<engine, portal, company_profiles, max_pages, wpc, current_page,
                   links, pages_scraped, pageRequests, extracted, seenHrefs,
                   noNextPage, failedPage, crawlVars, vlog, urls_with_info,
                   scraped_data, outputs, extractorVars, modeVars>>

NextScrape ==
    \/ SetupDriver
    \/ SetupDriverRaises
    \/ PageLimitReached
    \/ PageFetchRaises
    \/ PageWaitTimesOut
    \/ FirstPageEmpty
    \/ PageWithNext /\ AbsoluteLinksOnly
    \/ PageWithoutNext /\ AbsoluteLinksOnly
    \/ NextControlRaises /\ AbsoluteLinksOnly
    \/ ScrapeEntersPool
    \/ ScrapeRaisesInWalk
    \/ \E i \in DOMAIN tpc : TaskSetup(i)
    \/ \E i \in DOMAIN tpc : PoolTaskRun(i)
    \/ \E i \in DOMAIN tpc : MapRaises(i)
    \/ MapUnwinds
    \/ MapReturns
    \/ ScrapeReturns
    \/ ScrapeRaises

SpecScrape == InitScrape /\ [][NextScrape]_vars

(* ===================== the e-mail extraction engine ===================== *)

(* Python strings are TLA+ strings; None and the empty string, which the   *)
(* code tells apart nowhere (`if not email`, `email if email else None`),  *)
(* are both "".                                                            *)

Char(s, k) == SubSeq(s, k, k)

Chars(s) == {Char(s, k) : k \in 1..Len(s)}

\* s[n:]
Drop(s, n) == SubSeq(s, n + 1, Len(s))

\* s.startswith(p)
StartsWith(s, p) == Len(p) <= Len(s) /\ SubSeq(s, 1, Len(p)) = p

\* s.endswith(p)
EndsWith(s, p) == Len(p) <= Len(s) /\ SubSeq(s, Len(s) - Len(p) + 1, Len(s)) = p

\* The places where p occurs in s.
Occurrences(s, p) == {k \in 1..(Len(s) - Len(p) + 1) : SubSeq(s, k, k + Len(p) - 1) = p}

\* p in s
Contains(s, p) == Occurrences(s, p) # {}

Min(S) == CHOOSE x \in S : \A y \in S : x <= y

Max(S) == CHOOSE x \in S : \A y \in S : y <= x

\* s.find(p) + 1: the first place where p occurs in s, 0 when there is none.
Find(s, p) == IF Contains(s, p) THEN Min(Occurrences(s, p)) ELSE 0

LowerCase == "abcdefghijklmnopqrstuvwxyz"

UpperCase == "ABCDEFGHIJKLMNOPQRSTUVWXYZ"

Letters == Chars(LowerCase) \cup Chars(UpperCase)

Digits == Chars("0123456789")

\* \s
Whitespace == {" ", "\t", "\n", "\r"}

\* \w
WordChars == Letters \cup Digits \cup {"_"}

lowerChar(c) == IF Contains(UpperCase, c) THEN Char(LowerCase, Find(UpperCase, c)) ELSE c

\* s.lower()
RECURSIVE lower(_)
lower(s) == IF s = "" THEN "" ELSE lowerChar(Char(s, 1)) \o lower(Drop(s, 1))

\* s.replace(old, new)
RECURSIVE replace(_, _, _)
replace(s, old, new) ==
    IF s = "" THEN ""
    ELSE IF StartsWith(s, old) THEN new \o replace(Drop(s, Len(old)), old, new)
    ELSE Char(s, 1) \o replace(Drop(s, 1), old, new)

\* s.lstrip(chars), s.rstrip(chars), s.strip(chars)
RECURSIVE lstrip(_, _)
lstrip(s, chars) ==
    IF s # "" /\ Char(s, 1) \in chars THEN lstrip(Drop(s, 1), chars) ELSE s

RECURSIVE rstrip(_, _)
rstrip(s, chars) ==
    IF s # "" /\ Char(s, Len(s)) \in chars
    THEN rstrip(SubSeq(s, 1, Len(s) - 1), chars) ELSE s

strip(s, chars) == rstrip(lstrip(s, chars), chars)

\* re.sub(r'\s+', '', s) when chars is Whitespace
RECURSIVE RemoveChars(_, _)
RemoveChars(s, chars) ==
    IF s = "" THEN ""
    ELSE (IF Char(s, 1) \in chars THEN "" ELSE Char(s, 1))
         \o RemoveChars(Drop(s, 1), chars)

\* re.sub(r'<[^>]+>', '', s): a "<", at least one character that is not ">",
\* and the first ">" after them are removed.
RECURSIVE RemoveTags(_)
RemoveTags(s) ==
    IF s = "" THEN ""
    ELSE IF Char(s, 1) = "<" /\ Len(s) >= 3 /\ Char(s, 2) # ">"
            /\ Contains(Drop(s, 2), ">")
    THEN RemoveTags(Drop(s, 2 + Find(Drop(s, 2), ">")))
    ELSE Char(s, 1) \o RemoveTags(Drop(s, 1))

\* s.split(sep)
RECURSIVE split(_, _)
split(s, sep) ==
    IF Contains(s, sep)
    THEN <<SubSeq(s, 1, Find(s, sep) - 1)>>
         \o split(Drop(s, Find(s, sep) + Len(sep) - 1), sep)
    ELSE <<s>>

\* local, domain = email.split('@', 1), for an email that holds an "@"
LocalPart(email) == SubSeq(email, 1, Find(email, "@") - 1)

DomainPart(email) == Drop(email, Find(email, "@"))

\* self.business_domains: the free webmail providers.
business_domains ==
    {"gmail.com", "yahoo.com", "hotmail.com", "outlook.com", "aol.com",
     "icloud.com", "me.com", "live.com", "msn.com", "ymail.com"}

\* self.excluded_domains
excluded_domains ==
    {"example.com", "test.com", "localhost", "domain.com", "mydomain.com",
     "google.com", "facebook.com", "twitter.com", "linkedin.com",
     "instagram.com", "youtube.com", "microsoft.com", "apple.com",
     "criteo.com", "criteo.com.we", "criteo.net", "reppublika.com",
     "reppublika.com.reppublika", "visable.com", "visable.comvisable",
     "googletagmanager.com", "google-analytics.com", "hotjar.com",
     "mixpanel.com", "segment.com", "intercom.io", "zendesk.com",
     "freshdesk.com", "salesforce.com", "hubspot.com", "marketo.com",
     "sentry.io", "rollbar.com", "newrelic.com", "datadog.com",
     "cookiebot.com", "onetrust.com", "privacymanager.io", "cookielaw.org",
     "iubenda.com", "termly.io", "doubleclick.net", "adsense.com",
     "adroll.com", "adnxs.com", "taboola.com", "outbrain.com",
     "cloudflare.com", "akamai.com", "fastly.com", "amazonaws.com",
     "heroku.com", "netlify.com", "stripe.com", "paypal.com", "square.com",
     "noreply.com", "no-reply.com", "donotreply.com"}

\* self.business_prefixes
business_prefixes ==
    {"info", "contact", "sales", "support", "admin", "office", "hello",
     "enquiry", "inquiry", "business", "service", "mail", "reception",
     "booking", "reservation", "export", "order", "purchase", "commercial",
     "wholesale", "retail", "marketing", "press", "media", "hr", "careers",
     "jobs", "webmaster", "postmaster", "hostmaster", "billing"}

\* clean_email: tags out, the obfuscation markers replaced, all whitespace
\* out, punctuation stripped from both ends.
clean_email_keeping_whitespace(email) ==
    LET untagged == strip(RemoveTags(email), Whitespace)
        at == replace(replace(untagged, "[at]", "@"), "(at)", "@")
        dot == replace(replace(at, "[dot]", "."), "(dot)", ".")
    IN  strip(dot, Chars(".,;:!?()[]{}\"'-"))

clean_email(email) ==
    LET untagged == strip(RemoveTags(email), Whitespace)
        at == replace(replace(untagged, "[at]", "@"), "(at)", "@")
        dot == replace(replace(at, "[dot]", "."), "(dot)", ".")
        squeezed == RemoveChars(dot, Whitespace)
    IN  strip(squeezed, Chars(".,;:!?()[]{}\"'-"))

\* The characters of an atom of the local part, for validators.email (the
\* grave accent, which no string of this module holds, is left out).
AtomChars == WordChars \cup Chars("!#$%&'*+/=?^{|}~-")

\* validators.email (third-party): exactly one "@", a dot-atom before it, and
\* after it a host name of at least two labels whose last label is alphabetic.
IsDotAtom(s) ==
    \A k \in DOMAIN split(s, ".") :
        /\ split(s, ".")[k] # ""
        /\ Chars(split(s, ".")[k]) \subseteq AtomChars

IsHostLabel(s) ==
    /\ s # ""
    /\ Chars(s) \subseteq Letters \cup Digits \cup {"-"}
    /\ Char(s, 1) # "-"
    /\ Char(s, Len(s)) # "-"

IsHostName(s) ==
    LET labels == split(s, ".")
    IN  /\ Len(labels) >= 2
        /\ \A k \in DOMAIN labels : IsHostLabel(labels[k])
        /\ Chars(labels[Len(labels)]) \subseteq Letters
        /\ Len(labels[Len(labels)]) >= 2

ValidatorsEmail(email) ==
    /\ Cardinality(Occurrences(email, "@")) = 1
    /\ IsDotAtom(LocalPart(email))
    /\ IsHostName(DomainPart(email))

\* is_valid_email: the domain is compared, lower-cased, with the exclusion list.
is_valid_email_case_sensitive(email) ==
    /\ email # ""
    /\ Contains(email, "@")
    /\ ValidatorsEmail(email)
    /\ DomainPart(email) \notin excluded_domains
    /\ Contains(DomainPart(email), ".")
    /\ LET labels == split(lower(DomainPart(email)), ".")
       IN  Len(labels[Len(labels)]) >= 2

is_valid_email(email) ==
    /\ email # ""
    /\ Contains(email, "@")
    /\ ValidatorsEmail(email)
    /\ lower(DomainPart(email)) \notin excluded_domains
    /\ Contains(lower(DomainPart(email)), ".")
    /\ LET labels == split(lower(DomainPart(email)), ".")
       IN  Len(labels[Len(labels)]) >= 2

(* The four patterns of email_patterns have one shape:                     *)
(*     \b local+ separator domain+ separator tld{2,} \b                    *)
(* and differ in the two separators and in whether \s* surrounds them.     *)
(* They are compiled with re.IGNORECASE.                                   *)

\* [A-Za-z0-9._%+-]
LocalChars == Letters \cup Digits \cup Chars("._%+-")

\* [A-Za-z0-9.-]
DomainChars == Letters \cup Digits \cup Chars(".-")

\* [A-Z|a-z]
TldChars == Letters \cup {"|"}

email_patterns ==
    <<[spaced |-> FALSE, at |-> "@", dot |-> "."],
      [spaced |-> TRUE, at |-> "@", dot |-> "."],
      [spaced |-> FALSE, at |-> "[at]", dot |-> "[dot]"],
      [spaced |-> TRUE, at |-> "(at)", dot |-> "(dot)"]>>

IsWordAt(t, p) == p \in 1..Len(t) /\ Char(t, p) \in WordChars

\* \b matches between the characters p - 1 and p of t.
WordBoundary(t, p) == IsWordAt(t, p - 1) # IsWordAt(t, p)

\* The place after the longest run of characters of chars that starts at p.
RECURSIVE RunEnd(_, _, _)
RunEnd(t, p, chars) ==
    IF p \in 1..Len(t) /\ Char(t, p) \in chars THEN RunEnd(t, p + 1, chars) ELSE p

\* The literal stands at p, letter case ignored.
LiteralAt(t, p, lit) ==
    /\ p + Len(lit) - 1 <= Len(t)
    /\ lower(SubSeq(t, p, p + Len(lit) - 1)) = lit

\* The place after the separator that starts at p, 0 when none starts there.
\* The character after \s* is never whitespace, so \s* takes the whole run.
AfterSeparator(t, p, spaced, lit) ==
    LET q == IF spaced THEN RunEnd(t, p, Whitespace) ELSE p
    IN  IF LiteralAt(t, q, lit)
        THEN IF spaced THEN RunEnd(t, q + Len(lit), Whitespace) ELSE q + Len(lit)
        ELSE 0

\* The places where tld{2,}\b may end when the tld starts at p.
TldEnds(t, p) == {e \in (p + 2)..RunEnd(t, p, TldChars) : WordBoundary(t, e)}

\* The places where domain+ may end, the rest of the pattern matching after
\* them, when the domain starts at a.
DomainEnds(t, a, pat) ==
    {e \in (a + 1)..RunEnd(t, a, DomainChars) :
        LET d == AfterSeparator(t, e, pat.spaced, pat.dot)
        IN  d # 0 /\ TldEnds(t, d) # {}}

\* The place after the match of pat that starts at p, 0 when none starts
\* there. No separator starts with a character of local+, so local+ takes
\* the whole run; domain+ and tld{2,} are greedy and give back.
MatchEnd(t, p, pat) ==
    LET l == RunEnd(t, p, LocalChars)
        a == IF l > p THEN AfterSeparator(t, l, pat.spaced, pat.at) ELSE 0
        ends == DomainEnds(t, a, pat)
    IN  IF ~WordBoundary(t, p) \/ a = 0 \/ ends = {}
        THEN 0
        ELSE Max(TldEnds(t, AfterSeparator(t, Max(ends), pat.spaced, pat.dot)))

\* pattern.findall(text): the matches, leftmost first, none overlapping.
RECURSIVE FindAllFrom(_, _, _)
FindAllFrom(t, p, pat) ==
    LET e == MatchEnd(t, p, pat)
    IN  IF p > Len(t) THEN {}
        ELSE IF e = 0 THEN FindAllFrom(t, p + 1, pat)
        ELSE {SubSeq(t, p, e - 1)} \cup FindAllFrom(t, e, pat)

findall(t, pat) == FindAllFrom(t, 1, pat)

\* The loop body of extract_emails_from_text and of the mailto loop: a raw
\* string is cleaned, validated and, when valid, added in lower case.
Accepted(raws) ==
    {lower(cleaned) :
        cleaned \in {c \in {clean_email(raw) : raw \in raws} :
                        c # "" /\ is_valid_email(c)}}

extract_emails_from_text(text) ==
    Accepted(UNION {findall(text, email_patterns[k]) : k \in DOMAIN email_patterns})

\* _deduplicate_parsing_errors
IsDigits(s) == s # "" /\ Chars(s) \subseteq Digits

ParsingErrorOfAnyDomain(email1, email2) ==
    /\ email1 # email2
    /\ Len(LocalPart(email1)) > Len(LocalPart(email2))
    /\ EndsWith(LocalPart(email1), LocalPart(email2))
    /\ IsDigits(IF LocalPart(email2) = "" THEN ""
                ELSE SubSeq(LocalPart(email1), 1,
                            Len(LocalPart(email1)) - Len(LocalPart(email2))))

\* email1 is removed because of email2: same domain, and local1 is local2
\* after a prefix for which isdigit() holds (local1[:-0] is the empty string).
ParsingErrorOf(email1, email2) ==
    /\ email1 # email2
    /\ DomainPart(email1) = DomainPart(email2)
    /\ Len(LocalPart(email1)) > Len(LocalPart(email2))
    /\ EndsWith(LocalPart(email1), LocalPart(email2))
    /\ IsDigits(IF LocalPart(email2) = "" THEN ""
                ELSE SubSeq(LocalPart(email1), 1,
                            Len(LocalPart(email1)) - Len(LocalPart(email2))))

deduplicate_parsing_errors(the_emails) ==
    the_emails \ {email1 \in {e \in the_emails : Contains(e, "@")} :
                \E email2 \in {e \in the_emails : Contains(e, "@")} :
                    ParsingErrorOf(email1, email2)}

\* The part of a mailto href that re.search(r'mailto:([^?&]+)', href) captures.
MailtoAddress(href) ==
    LET rest == Drop(href, Len("mailto:"))
        stops == Occurrences(rest, "?") \cup Occurrences(rest, "&")
    IN  IF stops = {} THEN rest ELSE SubSeq(rest, 1, Min(stops) - 1)

\* extract_emails_from_html. The parsed document is what BeautifulSoup gives
\* the method: the hrefs of its mailto links, its text content, and the text
\* of the elements the e-mail selectors match.
extract_emails_from_html(html) ==
    deduplicate_parsing_errors(
        Accepted({MailtoAddress(h) : h \in {x \in html.mailtos : MailtoAddress(x) # ""}})
        \cup extract_emails_from_text(html.text)
        \cup UNION {extract_emails_from_text(t) : t \in html.elements})

(* Scores are Python floats. A float is written as the tenth it is near and *)
(* its distance, in units of 2^-56, from the double nearest to that tenth:  *)
(* Float(3, 0) is the literal 0.3, Float(3, -4) is 0.29999999999999993.     *)

Float(tenths, ulps) == [tenths |-> tenths, ulps |-> ulps]

\* The float literal tenths/10.
Tenths(n) == Float(n, 0)

\* x < y
FloatLess(x, y) ==
    \/ x.tenths < y.tenths
    \/ x.tenths = y.tenths /\ x.ulps < y.ulps

\* score += d/10 (score -= 0.2 is d = -2): the IEEE-754 binary64 sum, rounded
\* to nearest, for the operands score_email_business_relevance can meet.
FloatAdd(x, d) ==
    Float(x.tenths + d,
              CASE <<x.tenths, x.ulps, d>> = <<10, 0, 1>> -> 0
                [] <<x.tenths, x.ulps, d>> = <<10, 0, -1>> -> 0
                [] <<x.tenths, x.ulps, d>> = <<10, 0, -4>> -> 0
                [] <<x.tenths, x.ulps, d>> = <<8, 0, 2>> -> 0
                [] <<x.tenths, x.ulps, d>> = <<8, 0, -2>> -> 8
                [] <<x.tenths, x.ulps, d>> = <<7, 0, 1>> -> -8
                [] <<x.tenths, x.ulps, d>> = <<7, 0, -1>> -> 0
                [] <<x.tenths, x.ulps, d>> = <<7, 0, -4>> -> -4
                [] <<x.tenths, x.ulps, d>> = <<6, 0, 1>> -> 0
                [] <<x.tenths, x.ulps, d>> = <<6, 0, -1>> -> 0
                [] <<x.tenths, x.ulps, d>> = <<6, 8, 1>> -> 8
                [] <<x.tenths, x.ulps, d>> = <<6, 8, -1>> -> 8
                [] <<x.tenths, x.ulps, d>> = <<6, 8, -4>> -> 4
                [] <<x.tenths, x.ulps, d>> = <<5, 0, 3>> -> 0
                [] <<x.tenths, x.ulps, d>> = <<5, 0, 2>> -> 0
                [] <<x.tenths, x.ulps, d>> = <<5, 0, -2>> -> 0
                [] <<x.tenths, x.ulps, d>> = <<3, -4, 1>> -> -8
                [] <<x.tenths, x.ulps, d>> = <<3, -4, -1>> -> -6
                [] <<x.tenths, x.ulps, d>> = <<3, 0, 1>> -> 0
                [] <<x.tenths, x.ulps, d>> = <<3, 0, -1>> -> -2
                [] <<x.tenths, x.ulps, d>> = <<3, 0, -4>> -> -2
                [] <<x.tenths, x.ulps, d>> = <<2, 4, 1>> -> 4
                [] <<x.tenths, x.ulps, d>> = <<2, 4, -1>> -> 4
                [] <<x.tenths, x.ulps, d>> = <<-1, -2, 1>> -> -2
                [] <<x.tenths, x.ulps, d>> = <<-1, -2, -1>> -> -2)

\* max(0.0, min(1.0, score))
Clamp(x) ==
    IF FloatLess(x, Tenths(0)) THEN Tenths(0)
    ELSE IF FloatLess(Tenths(10), x) THEN Tenths(10)
    ELSE x

\* ['test', 'fake', 'example', 'noreply', 'no-reply']
TestWords == {"test", "fake", "example", "noreply", "no-reply"}

HasBusinessPrefix(local_part) ==
    \E prefix \in business_prefixes : StartsWith(local_part, prefix)

HasTestWord(local_part) == \E word \in TestWords : Contains(local_part, word)

\* score_email_business_relevance, for an address with one "@"
score_email_business_relevance(email) ==
    IF email = "" THEN Tenths(0)
    ELSE
    LET local_part == lower(LocalPart(email))
        domain == lower(DomainPart(email))
        base == Tenths(5)
        prefixed == IF HasBusinessPrefix(local_part) THEN FloatAdd(base, 3) ELSE base
        hosted == IF domain \in business_domains
                  THEN FloatAdd(prefixed, -2) ELSE FloatAdd(prefixed, 2)
        tested == IF HasTestWord(local_part) THEN FloatAdd(hosted, -4) ELSE hosted
        sized == IF Len(local_part) <= 10 THEN FloatAdd(tested, 1)
                 ELSE IF Len(local_part) > 20 THEN FloatAdd(tested, -1)
                 ELSE tested
    IN  Clamp(sized)

\* The addresses filter_business_emails appends to scored_emails.
KeptAbove(the_emails, min_score) ==
    {email \in the_emails : FloatLess(min_score, score_email_business_relevance(email))}

Kept(the_emails, min_score) ==
    {email \in the_emails : ~FloatLess(score_email_business_relevance(email), min_score)}

\* One step of the stable sort without reverse=True: the address goes after
\* the addresses of the sorted list whose score is not above its own.
InsertAscending(sorted, email) ==
    LET k == Cardinality({i \in DOMAIN sorted :
                 ~FloatLess(score_email_business_relevance(email),
                            score_email_business_relevance(sorted[i]))})
    IN  SubSeq(sorted, 1, k) \o <<email>> \o SubSeq(sorted, k + 1, Len(sorted))

\* One step of scored_emails.sort(key=lambda x: x[1], reverse=True): the sort
\* is stable, so the address goes after the addresses of the sorted list whose
\* score is not below its own.
InsertByScore(sorted, email) ==
    LET k == Cardinality({i \in DOMAIN sorted :
                 ~FloatLess(score_email_business_relevance(sorted[i]),
                            score_email_business_relevance(email))})
    IN  SubSeq(sorted, 1, k) \o <<email>> \o SubSeq(sorted, k + 1, Len(sorted))

\* The first n addresses of scored_emails, sorted.
RECURSIVE SortedAscending(_, _)
SortedAscending(scored_emails, n) ==
    IF n = 0 THEN <<>>
    ELSE InsertAscending(SortedAscending(scored_emails, n - 1), scored_emails[n])

RECURSIVE SortedByScore(_, _)
SortedByScore(scored_emails, n) ==
    IF n = 0 THEN <<>>
    ELSE InsertByScore(SortedByScore(scored_emails, n - 1), scored_emails[n])

filter_business_emails_ascending(the_emails, min_score) ==
    {SortedAscending(scored_emails, Cardinality(Kept(the_emails, min_score))) :
        scored_emails \in ListOf(Kept(the_emails, min_score))}

\* filter_business_emails: the kept addresses are appended in the order in
\* which Python iterates the set, which is any order, and then sorted by score,
\* highest first: the operator is the set of lists the method may return.
filter_business_emails(the_emails, min_score) ==
    {SortedByScore(scored_emails, Cardinality(Kept(the_emails, min_score))) :
        scored_emails \in ListOf(Kept(the_emails, min_score))}

\* extract_and_filter_emails: the lists it may return.
extract_and_filter_emails(content, content_type, min_score) ==
    filter_business_emails(
        IF lower(content_type) = "html"
        THEN extract_emails_from_html(content)
        ELSE extract_emails_from_text(content.text),
        min_score)

(* ------------------ calls to the e-mail extraction engine -------------- *)

\* The strings of at most n characters of chars.
RECURSIVE StringsOver(_, _)
StringsOver(chars, n) ==
    IF n = 0 THEN {""}
    ELSE {""} \cup {c \o s : c \in chars, s \in StringsOver(chars, n - 1)}

\* The sets of at most n elements of U.
RECURSIVE SetsUpTo(_, _)
SetsUpTo(U, n) ==
    IF n = 0 THEN {{}}
    ELSE {{}} \cup {S \cup {x} : S \in SetsUpTo(U, n - 1), x \in U}

\* The two obfuscation conventions, and the plain form.
BracketMarkers == [at |-> "[at]", dot |-> "[dot]"]

ParenMarkers == [at |-> "(at)", dot |-> "(dot)"]

PlainMarkers == [at |-> "@", dot |-> "."]

\* local, domain and tld written with the markers m and the whitespace g
\* around them.
Written(p, m, g) ==
    p.local \o g[1] \o m.at \o g[2] \o p.domain \o g[3] \o m.dot \o g[4] \o p.tld

\* local@domain.tld
Plain(p) == p.local \o "@" \o p.domain \o "." \o p.tld

Parts ==
    {[local |-> "info", domain |-> "acme", tld |-> "com"],
     [local |-> "j.doe", domain |-> "mail.acme-corp", tld |-> "de"],
     [local |-> "Sales_1", domain |-> "X", tld |-> "io"]}

Gaps == StringsOver({" ", "\t"}, MaxGap)

SpaceGaps == StringsOver({" "}, MaxGap)

CleanCalls ==
    {[method |-> "clean_email", email |-> Written(p, m, g), parts |-> p] :
        p \in Parts, m \in {BracketMarkers, ParenMarkers}, g \in [1..4 -> Gaps]}

Texts ==
    {lead \o Written(p, m, g) :
        lead \in {"", "Contact us: "}, p \in Parts,
        m \in {PlainMarkers, BracketMarkers, ParenMarkers},
        g \in [1..4 -> SpaceGaps]}

TextCalls == {[method |-> "extract_emails_from_text", text |-> t] : t \in Texts}

\* Addresses as a page may show them, some at an excluded domain.
MarkupAddresses ==
    <<"info@acme.com", "Bob@Gmail.com", "info@doubleclick.net",
      "Info@DoubleClick.NET", "ads[at]doubleclick[dot]net",
      "ads (at) DOUBLECLICK (dot) net", "7info@acme.com", "jo@Example.COM">>

\* The texts that show at most n of the addresses from the k-th on, in order.
RECURSIVE Joined(_, _)
Joined(k, n) ==
    IF n = 0 \/ k > Len(MarkupAddresses) THEN {""}
    ELSE Joined(k + 1, n)
         \cup {MarkupAddresses[k] \o ", " \o t : t \in Joined(k + 1, n - 1)}

MarkupTexts == Joined(1, MaxAddresses)

\* The mailto hrefs of a page and the text of the elements its selectors match.
Markups ==
    {[mailtos |-> {}, elements |-> {}],
     [mailtos |-> {"mailto:Sales@DoubleClick.net?subject=Hello"}, elements |-> {}],
     [mailtos |-> {"mailto:office@acme.com"}, elements |-> {"press@acme.com"}],
     [mailtos |-> {"mailto:office@acme.com&cc=x@acme.com"}, elements |-> {}]}

\* A page: text content, and for HTML the mailto hrefs and the text of the
\* elements the selectors match.
Contents ==
    {[text |-> t, mailtos |-> {}, elements |-> {}, type |-> "text"] : t \in MarkupTexts}
    \cup {[text |-> t, mailtos |-> m.mailtos, elements |-> m.elements,
            type |-> "html"] : t \in MarkupTexts, m \in Markups}

ExtractCalls ==
    {[method |-> "extract_and_filter_emails", content |-> c,
      content_type |-> c.type, min_score |-> Tenths(3)] : c \in Contents}

\* Validated addresses whose local parts are made of a digit and a letter.
DedupAddresses ==
    {l \o "@" \o d : l \in StringsOver({"1", "s"}, MaxLocalLen) \ {""},
                     d \in {"acme.com", "b.org"}}

DedupCalls ==
    {[method |-> "_deduplicate_parsing_errors", emails |-> S] :
        S \in SetsUpTo(DedupAddresses, MaxSetSize)
              \cup {{"123sales@acme.com", "sales@acme.com"}}}

\* Addresses with every combination of business prefix, test word, length of
\* the local part and kind of domain.
ScoreAddresses ==
    {prefix \o word \o pad \o "@" \o d :
        prefix \in {""} \cup business_prefixes, word \in {""} \cup TestWords,
        pad \in StringsOver({"x"}, MaxPad), d \in {"acme.com", "gmail.com"}}
    \ {"@acme.com", "@gmail.com"}

ScoreCalls ==
    {[method |-> "score_email_business_relevance", email |-> e] : e \in ScoreAddresses}

\* Addresses of scores 1.0, 1.0, 0.7, 0.4, 0.3 (short by a rounding), 0.2
\* (over by a rounding), 0.2 (short by a rounding) and 0.0.
FilterAddresses ==
    {"info@acme.com", "sales@acme.com", "contact@gmail.com", "bob@gmail.com",
     "noreply-team@acme.com", "sales-test-unit@gmail.com",
     "jane.q.public.the.third@gmail.com", "test@gmail.com"}

FilterCalls ==
    {[method |-> "filter_business_emails", emails |-> S, min_score |-> Tenths(m)] :
        S \in SetsUpTo(FilterAddresses, MaxSetSize), m \in 0..10}

Calls == CleanCalls \cup TextCalls \cup ExtractCalls \cup DedupCalls
         \cup ScoreCalls \cup FilterCalls

\* No scraper is running.
ScraperIdle ==
    /\ engine = "none"
    /\ portal = "none"
    /\ max_pages = 0
    /\ wpc = "idle"
    /\ current_page = 1
    /\ links = {}
    /\ main_driver = "none"
    /\ company_profiles = <<>>
    /\ pages_scraped = <<>>
    /\ pageRequests = <<>>
    /\ extracted = {}
    /\ seenHrefs = {}
    /\ noNextPage = 0
    /\ failedPage = 0
    /\ CrawlIdle
    /\ PipelineIdle

\* A method of EmailExtractor is called.
InitExtractor ==
    /\ ScraperIdle
    /\ ecall \in Calls
    /\ eresult = <<>>
    /\ ModesIdle

Called(method) == ecall.method = method /\ eresult = <<>>

Returned(method) == ecall.method = method /\ eresult # <<>>

Returns(value) ==
    /\ eresult' = <<value>>
    /\ UNCHANGED <<engine, portal, company_profiles, walkVars, crawlVars, vlog,
                   pipeVars, ecall, modeVars>>

CleanEmail == Called("clean_email") /\ Returns(clean_email(ecall.email))

ExtractFromText ==
    Called("extract_emails_from_text") /\ Returns(extract_emails_from_text(ecall.text))

Deduplicate ==
    Called("_deduplicate_parsing_errors")
    /\ Returns(deduplicate_parsing_errors(ecall.emails))

ScoreEmail ==
    Called("score_email_business_relevance")
    /\ Returns(score_email_business_relevance(ecall.email))

FilterBusinessEmails ==
    /\ Called("filter_business_emails")
    /\ \E list \in filter_business_emails(ecall.emails, ecall.min_score) :
          Returns(list)

ExtractAndFilter ==
    /\ Called("extract_and_filter_emails")
    /\ \E list \in extract_and_filter_emails(ecall.content, ecall.content_type,
                                            ecall.min_score) :
          Returns(list)

\* The same call of extract_and_filter_emails in another run of the program:
\* the hash of a str, and with it the iteration order of the set of addresses,
\* is chosen anew by every interpreter process.
ExtractAndFilterAgain ==
    /\ Returned("extract_and_filter_emails")
    /\ Len(eresult) = 1
    /\ \E list \in extract_and_filter_emails(ecall.content, ecall.content_type,
                                            ecall.min_score) :
          eresult' = eresult \o <<list>>
    /\ UNCHANGED <<engine, portal, company_profiles, walkVars, crawlVars, vlog,
                   pipeVars, ecall, modeVars>>

NextExtractor ==
    \/ CleanEmail
    \/ ExtractFromText
    \/ Deduplicate
    \/ ScoreEmail
    \/ FilterBusinessEmails
    \/ ExtractAndFilter
    \/ ExtractAndFilterAgain

SpecExtractor == InitExtractor /\ [][NextExtractor]_vars

(* ======================= the pagination walk: claims ==================== *)

\* The links of the extracted pages, resolved against the base URL.
LinksOfExtractedPages == {urljoin(h) : h \in {x \in seenHrefs : x.kind # "none"}}

NoDuplicates(s) == \A i, j \in DOMAIN s : s[i] = s[j] => i = j

\* C4 (as claimed): no exception escapes extract_company_profiles, in either
\* backend, whatever fails during the walk, the session setup included.
C4_NoExceptionEscapesDiscover == wpc # "raised"

\* C5 (as claimed): the pages-walked count returned by the walk is the number
\* of pages whose profile links were extracted, however the walk ended.
C5_PagesWalkedIsExtractedCount ==
    (wpc = "returned" /\ engine = "selenium")
        => pages_scraped = <<Cardinality(extracted)>>

\* C6: once a page without next-page control has been extracted, the walk has
\* ended and no page after that one was ever requested (fetched or clicked to).
C6_NoRequestAfterLastPage ==
    noNextPage # 0 =>
        /\ wpc = "returned"
        /\ noNextPage \in extracted
        /\ \A i \in DOMAIN pageRequests : pageRequests[i] <= noNextPage

\* The walk met a page without next-page control before the page limit.
C6_Witness ==
    /\ wpc = "returned"
    /\ noNextPage = 2
    /\ max_pages > noNextPage
    /\ pageRequests = <<1, 2>>

\* C7: the returned list enumerates, without duplicate, exactly the resolved
\* links of the pages that were extracted.
C7_LinkListIsUnionOnce ==
    wpc = "returned" =>
        /\ Range(company_profiles) = LinksOfExtractedPages
        /\ NoDuplicates(company_profiles)
        /\ Range(company_profiles) \subseteq ProfileUrls

\* Two pages were extracted, a link was seen both relative and absolute next
\* to another link, and the walk ended by a failure on the third page.
C7_Witness ==
    /\ wpc = "returned"
    /\ extracted = {1, 2}
    /\ failedPage = 3
    /\ {RelHref(1), AbsUrl(1), AbsUrl(2)} \subseteq seenHrefs
    /\ Len(company_profiles) = 2

\* C8: when the fetch of page k has failed the walk has ended: page k was
\* requested at most once, no later page was requested, and the list returned
\* holds the links of pages 1..k-1.
C8_FetchFailureEndsWalk ==
    failedPage # 0 =>
        /\ wpc = "returned"
        /\ Cardinality({i \in DOMAIN pageRequests : pageRequests[i] = failedPage}) <= 1
        /\ \A i \in DOMAIN pageRequests : pageRequests[i] <= failedPage
        /\ extracted = 1..(failedPage - 1)
        /\ Range(company_profiles) = LinksOfExtractedPages

\* The fetch of page 2 failed after page 1 had yielded links.
C8_Witness ==
    /\ failedPage = 2
    /\ wpc = "returned"
    /\ pageRequests = <<1, 2>>
    /\ company_profiles # <<>>

\* extract_company_profiles has returned or raised.
WalkEnded == wpc \in {"returned", "raised"}

\* Links are extracted from at most max_pages pages, the page count returned
\* is at most max_pages, and with max_pages = 0 no page is requested.
WalkWithinPageLimit ==
    /\ current_page \in 1..(max_pages + 1)
    /\ extracted \subseteq 1..max_pages
    /\ pages_scraped # <<>> => pages_scraped[1] \in 0..max_pages
    /\ max_pages = 0 => (pageRequests = <<>> /\ extracted = {})

\* An iteration of the loop advances current_page by exactly one or ends the
\* walk.
IterationAdvancesOrEnds ==
    wpc = "loop" =>
        \/ wpc' = "loop" /\ current_page' = current_page + 1
        \/ wpc' \in {"returned", "raised"} /\ current_page' = current_page

\* C26: the pagination walk always terminates: every loop iteration either
\* advances current_page by exactly one or ends the walk, so links are
\* extracted from at most max_pages pages, the page count returned is at most
\* max_pages, and with max_pages = 0 no page is fetched.
C26_WalkTerminates ==
    /\ []WalkWithinPageLimit
    /\ [][IterationAdvancesOrEnds]_vars
    /\ <>WalkEnded

\* The walk ended at the page limit after extracting max_pages pages, two at
\* least.
C26_Witness ==
    /\ wpc = "returned"
    /\ max_pages >= 2
    /\ extracted = 1..max_pages
    /\ current_page = max_pages + 1

(* =================== the profile-visiting phase: claims ================= *)

AllAbsent(d) ==
    d.name = None /\ d.address = None /\ d.country = None /\ d.website = None

CrawlEnded == mpc \in {"returned", "raised"}

\* C1: when extract_details_and_emails_parallel returns, details and emails
\* both have the length of the input list, and position i of each holds what
\* the task of input URL i returned, in whatever order the tasks ended.
C1_ResultsAlignWithInput ==
    (engine = "selenium" /\ mpc = "returned") =>
        /\ Len(details) = N
        /\ Len(emails) = N
        /\ \A i \in Tasks : details[i] = tdetails[i] /\ emails[i] = temails[i]

\* Two tasks with different results ended in the other order than their URLs
\* are listed, and the function returned.
C1_Witness ==
    /\ engine = "selenium"
    /\ mpc = "returned"
    /\ N = 2
    /\ outOfOrder
    /\ details[1] # details[2]
    /\ details[2].name = TextOf(2)

\* C2 (as claimed): a task in which a step raised still delivers its record,
\* and once the orchestrator has ended it has returned two lists of the
\* input's length, with an all-absent record and an empty e-mail list at the
\* task's index and every other task's own result at the other indices.
C2_FailedTaskYieldsDegradedRecord ==
    \A k \in Tasks :
        (engine = "selenium" /\ tfailed[k] # "none") =>
            /\ tpc[k] = "done"
            /\ CrawlEnded =>
                /\ mpc = "returned"
                /\ Len(details) = N
                /\ Len(emails) = N
                /\ AllAbsent(details[k])
                /\ emails[k].emails = <<>>
                /\ \A i \in Tasks \ {k} : details[i] = tdetails[i]

\* C3 (as claimed): no visit raises, and every profile of the list is visited.
C3_VisitNeverRaises ==
    \A i \in Tasks : tpc[i] \notin {"raised", "cancelled"}

\* C9 (as claimed): no fetch session is used by two profile tasks.
C9_NoSessionSharedByTasks ==
    \A u, v \in sessionUsers : u.session = v.session => u.task = v.task

\* C10: a driver set up by a task is open only while that task runs: the task
\* has called quit() on it when it ends, returning or not, and no other task
\* does; when extract_details_and_emails_parallel returns every driver has
\* quit and no handler holds one.
C10_DriverQuitByItsTask ==
    /\ \A d \in DOMAIN drivers :
          (drivers[d].state = "open") <=> (tpc[drivers[d].owner] = "open")
    /\ \A d \in DOMAIN drivers :
          tpc[drivers[d].owner] = "open" => thandler[drivers[d].owner] = d
    /\ mpc = "returned" =>
          /\ \A d \in DOMAIN drivers : drivers[d].state = "quit"
          /\ \A i \in Tasks : thandler[i] = 0

\* A task in which a step of the visit raised has ended with its driver quit,
\* another task has ended normally, and the function has returned.
C10_Witness ==
    /\ mpc = "returned"
    /\ N = 2
    /\ Len(drivers) = 2
    /\ tfailed[1] = "visit"
    /\ tfailed[2] = "none"
    /\ drivers[1].state = "quit"

(* ----------------------- the thread pool: claims ------------------------ *)

\* The drivers that were set up and whose quit() has not been called.
OpenDrivers == {d \in DOMAIN drivers : drivers[d].state = "open"}

\* C11: at every moment at most MaxWorkers (7) profile tasks are running and
\* at most MaxWorkers worker sessions are open, however many profile URLs the
\* phase was given.
C11_AtMostSevenTasksRun ==
    /\ Cardinality(Running) <= MaxWorkers
    /\ Cardinality(OpenDrivers) <= MaxWorkers

\* Seven tasks are running, each with its session open, and a task is waiting.
C11_Witness ==
    /\ N > MaxWorkers
    /\ Cardinality(Running) = MaxWorkers
    /\ Cardinality(OpenDrivers) = MaxWorkers
    /\ \E i \in Tasks : tpc[i] = "queued"

(* ----------------------- one observed run: claims ----------------------- *)

\* The visit of the observed profile returned its two records.
VisitReturned == N = 1 /\ tpc[1] = "done"

\* What extract_and_filter_emails returned for the page, <<>> when it
\* returned nothing or was not applied to that page.
FoundOn(page) ==
    IF \E k \in DOMAIN vlog : vlog[k].op = "extract" /\ vlog[k].on = page
    THEN vlog[CHOOSE k \in DOMAIN vlog : vlog[k].op = "extract" /\ vlog[k].on = page].found
    ELSE <<>>

\* C12: in the record returned by the browser worker, email_source is
\* main_page exactly when the returned e-mails are those extracted from the
\* website's main page, contact_page exactly when they are those extracted
\* from the contact page after the main page yielded none, and not_found
\* exactly when the returned e-mail list is empty.
C12_EmailSourceNamesOrigin ==
    (engine = "selenium" /\ VisitReturned) =>
        LET source == tdetails[1].email_source
            returned == temails[1].emails
        IN  /\ source \in {"main_page", "contact_page", "not_found"}
            /\ source = "main_page" <=>
                  (FoundOn("website") # <<>> /\ returned = FoundOn("website"))
            /\ source = "contact_page" <=>
                  /\ FoundOn("website") = <<>>
                  /\ FoundOn("contact_page") # <<>>
                  /\ returned = FoundOn("contact_page")
            /\ source = "not_found" <=> returned = <<>>

\* The main page yielded nothing, the contact page did, and the record says so.
C12_Witness ==
    /\ engine = "selenium"
    /\ VisitReturned
    /\ tdetails[1].email_source = "contact_page"
    /\ temails[1].emails = ContactPageEmails
    /\ \E k \in DOMAIN vlog : vlog[k] = Extraction("website", <<>>)

\* C13 (as claimed): in both backends the contact-page link is searched in the
\* markup of the profile page, never in the markup of the company website.
C13_ContactLinkSearchedInProfilePage ==
    \A k \in DOMAIN vlog :
        vlog[k].op = "find_contact_link" => vlog[k].on = "profile"

\* C14 (as claimed): scrape() of either backend returns the same four
\* components, every details record carrying email_source, and once scrape()
\* has returned the stages of run_pipeline complete.
C14_BackendsSubstitutable ==
    /\ scraped_data # <<>> =>
          /\ DOMAIN scraped_data[1] =
                {"company_profiles", "details", "emails", "pages_scraped"}
          /\ \A k \in DOMAIN scraped_data[1].details :
                "email_source" \in DOMAIN scraped_data[1].details[k]
          /\ ppc # "raised"

\* The places of the history where the contact page is requested.
ContactRequests == {k \in DOMAIN vlog : vlog[k] = Event("get", "contact_page")}

\* The main page was fetched and extract_and_filter_emails ran on its source.
MainPageExtractions ==
    {k \in DOMAIN vlog : vlog[k].op = "extract" /\ vlog[k].on = "website"}

\* C23: the contact page is requested at most once per profile, and only
\* after the website's main page was fetched and yielded no e-mail; when the
\* main page yields an e-mail, when its fetch fails or when the profile has no
\* website link, no contact page is requested.
C23_ContactPageOnlyAfterBarrenMainPage ==
    /\ Cardinality(ContactRequests) <= 1
    /\ \A k \in ContactRequests :
          \E g, x \in 1..(k - 1) :
              /\ g < x
              /\ vlog[g] = Event("get", "website")
              /\ vlog[x] = Extraction("website", <<>>)
    /\ (\E x \in MainPageExtractions : vlog[x].found # <<>>) => ContactRequests = {}
    /\ MainPageExtractions = {} => ContactRequests = {}

\* The HTTP backend requested the contact page after a main page without
\* e-mails.
C23_Witness ==
    /\ engine = "requests"
    /\ ContactRequests # {}
    /\ \E x \in MainPageExtractions : vlog[x].found = <<>>

Fields == {"name", "address", "country", "website"}

\* The places of the history where the selector of field f is looked up.
Lookups(f) == {k \in DOMAIN vlog : vlog[k].op = "lookup" /\ vlog[k].on = f}

\* The profile page was fetched and no step up to the website lookup raised
\* an exception other than the timeout of a selector that does not match.
LookupsUndisturbed ==
    /\ \E k \in DOMAIN vlog : vlog[k] = Event("get", "profile")
    /\ ~\E k \in DOMAIN vlog :
          /\ vlog[k].op = "raised"
          /\ vlog[k].on \in {"get", "cookie", "name", "address", "country", "website"}

SomeTaskStarted == \E i \in DOMAIN tpc : tpc[i] # "queued"

\* C25: in scrape() of the browser backend the pagination walk has ended and
\* its discovery session has been released, also when the walk failed, before
\* any profile task acquires a session, and the list handed to the pool is
\* not changed afterwards: the company_profiles returned is the list the
\* workers were indexed by.
C25_WalkEndedAndListFrozenBeforePool ==
    /\ SomeTaskStarted => (wpc = "returned" /\ main_driver = "closed")
    /\ (ppc # "scraping" \/ mpc # "idle") => main_driver # "open"
    /\ mpc # "idle" =>
          /\ Len(urls_with_info) = Len(company_profiles)
          /\ \A i \in DOMAIN urls_with_info :
                urls_with_info[i] = <<i, company_profiles[i], Len(company_profiles)>>
    /\ scraped_data # <<>> =>
          /\ Len(scraped_data[1].company_profiles) = Len(urls_with_info)
          /\ \A i \in DOMAIN urls_with_info :
                scraped_data[1].company_profiles[i] = urls_with_info[i][2]
          /\ Len(scraped_data[1].details) = Len(urls_with_info)

\* The walk broke off on a failing page, its driver was closed, two profile
\* tasks ran and scrape() returned the two URLs the tasks were indexed by.
C25_Witness ==
    /\ failedPage # 0
    /\ main_driver = "closed"
    /\ scraped_data # <<>>
    /\ Len(urls_with_info) = 2
    /\ drivers # <<>>
    /\ scraped_data[1].company_profiles = company_profiles

(* ================= the e-mail extraction engine: claims ================= *)

\* C15: no address in the list extract_and_filter_emails returns has a domain
\* on the exclusion list, in whatever letter case and with whatever
\* obfuscation the markup wrote it.
C15_NoExcludedDomainInOutput ==
    Returned("extract_and_filter_emails") =>
        \A k \in DOMAIN eresult[1] :
            lower(DomainPart(eresult[1][k])) \notin excluded_domains

\* A page shows an acme.com address next to doubleclick.net addresses in mixed
\* case, in the text and in a mailto link: only the acme.com address is returned.
C15_Witness ==
    /\ Returned("extract_and_filter_emails")
    /\ ecall.content.type = "html"
    /\ ecall.content.text = "info@acme.com, Info@DoubleClick.NET, "
    /\ ecall.content.mailtos = {"mailto:Sales@DoubleClick.net?subject=Hello"}
    /\ Range(eresult[1]) = {"info@acme.com"}

\* C16: clean_email maps local[at]domain[dot]tld and local(at)domain(dot)tld,
\* with or without whitespace around the markers, to local@domain.tld, and
\* leaves no whitespace.
C16_ObfuscationsNormalizeToPlain ==
    Returned("clean_email") =>
        /\ eresult[1] = Plain(ecall.parts)
        /\ Chars(eresult[1]) \cap Whitespace = {}

\* A parenthesis form with a tab and spaces around its markers was cleaned.
C16_Witness ==
    /\ Returned("clean_email")
    /\ ecall.email = "info\t(at) acme (dot)\tcom"
    /\ eresult[1] = "info@acme.com"

\* C17 (as claimed): from the text "Contact us: info [at] acme [dot] com" the
\* extracted set is exactly {"info@acme.com"}, and that address scores 1.0.
C17_SpacedBracketFormIsExtracted ==
    (Returned("extract_emails_from_text")
        /\ ecall.text = "Contact us: info [at] acme [dot] com") =>
        /\ eresult[1] = {"info@acme.com"}
        /\ score_email_business_relevance("info@acme.com") = Tenths(10)

\* a and b have the same domain, and the local part of a is a non-empty
\* all-digit prefix followed by the local part of b.
NumericPrefixVariant(a, b) ==
    /\ DomainPart(a) = DomainPart(b)
    /\ \E k \in 1..Len(LocalPart(a)) :
        /\ Chars(SubSeq(LocalPart(a), 1, k)) \subseteq Digits
        /\ Drop(LocalPart(a), k) = LocalPart(b)

\* C18: _deduplicate_parsing_errors removes from a validated set exactly the
\* addresses a for which another address b of the set has the same domain and
\* a local part that a's local part ends with after a non-empty all-digit
\* prefix, and keeps every other address; {"123sales@acme.com",
\* "sales@acme.com"} gives {"sales@acme.com"}.
C18_DedupRemovesNumericPrefixVariants ==
    Returned("_deduplicate_parsing_errors") =>
        /\ eresult[1] = {a \in ecall.emails :
                           ~\E b \in ecall.emails \ {a} : NumericPrefixVariant(a, b)}
        /\ ecall.emails = {"123sales@acme.com", "sales@acme.com"}
              => eresult[1] = {"sales@acme.com"}

C18_Witness ==
    /\ Returned("_deduplicate_parsing_errors")
    /\ ecall.emails = {"123sales@acme.com", "sales@acme.com"}
    /\ eresult[1] = {"sales@acme.com"}

\* The score the claim states, in tenths: 0.5, +0.3 for a business prefix,
\* -0.2 for a free webmail domain else +0.2, -0.4 for a test word, +0.1 for a
\* local part of at most 10 characters, -0.1 for one of more than 20, clamped
\* to [0, 1].
StatedTenths(email) ==
    LET local_part == lower(LocalPart(email))
        sum == 5 + (IF HasBusinessPrefix(local_part) THEN 3 ELSE 0)
                 + (IF lower(DomainPart(email)) \in business_domains THEN -2 ELSE 2)
                 - (IF HasTestWord(local_part) THEN 4 ELSE 0)
                 + (IF Len(local_part) <= 10 THEN 1
                    ELSE IF Len(local_part) > 20 THEN -1 ELSE 0)
    IN  IF sum < 0 THEN 0 ELSE IF sum > 10 THEN 10 ELSE sum

\* C19 (as claimed): the relevance score of an address is the stated sum,
\* clamped to [0, 1].
C19_ScoreIsTheStatedSum ==
    Returned("score_email_business_relevance") =>
        eresult[1] = Tenths(StatedTenths(ecall.email))

\* score >= min_score
ScoreAtLeast(email, min_score) ==
    \/ score_email_business_relevance(email) = min_score
    \/ FloatLess(min_score, score_email_business_relevance(email))

\* C20: filter_business_emails returns exactly the addresses whose score is
\* greater than or equal to min_score; an address whose score equals
\* min_score is kept.
C20_KeptIffScoreAtLeastMinScore ==
    Returned("filter_business_emails") =>
        /\ Range(eresult[1]) =
              {e \in ecall.emails : ScoreAtLeast(e, ecall.min_score)}
        /\ \A e \in ecall.emails :
              score_email_business_relevance(e) = ecall.min_score
                  => e \in Range(eresult[1])

\* An address scoring below 0.3 and at least 0.2 is returned with
\* min_score = 0.2.
C20_Witness ==
    /\ Returned("filter_business_emails")
    /\ ecall.min_score = Tenths(2)
    /\ ecall.emails = {"sales-test-unit@gmail.com", "noreply-team@acme.com"}
    /\ ScoreAtLeast("sales-test-unit@gmail.com", Tenths(2))
    /\ FloatLess(score_email_business_relevance("sales-test-unit@gmail.com"), Tenths(3))
    /\ "sales-test-unit@gmail.com" \in Range(eresult[1])

\* C21: the list filter_business_emails returns is ordered by non-increasing
\* score, for any two positions i < j score(output[i]) >= score(output[j]),
\* and holds no address twice.
C21_OutputSortedByScoreNoDuplicates ==
    Returned("filter_business_emails") =>
        /\ \A i, j \in DOMAIN eresult[1] :
              i < j => ~FloatLess(score_email_business_relevance(eresult[1][i]),
                                  score_email_business_relevance(eresult[1][j]))
        /\ \A i, j \in DOMAIN eresult[1] :
              eresult[1][i] = eresult[1][j] => i = j

\* Two addresses of different scores were returned, the higher score first.
C21_Witness ==
    /\ Returned("filter_business_emails")
    /\ Len(eresult[1]) = 2
    /\ FloatLess(score_email_business_relevance(eresult[1][2]),
                 score_email_business_relevance(eresult[1][1]))

\* C22 (as claimed): for fixed markup and threshold, two calls of
\* extract_and_filter_emails return the same addresses in the same order, the
\* order of addresses of equal score included.
C22_RepeatedCallsReturnSameList ==
    (Returned("extract_and_filter_emails") /\ Len(eresult) = 2) =>
        eresult[1] = eresult[2]


\* The validated addresses found anywhere in a content: its mailto links, its
\* text and the text of the elements the e-mail selectors match.
ValidlyExtracted(content) ==
    Accepted({MailtoAddress(h) : h \in {x \in content.mailtos : MailtoAddress(x) # ""}})
    \cup extract_emails_from_text(content.text)
    \cup UNION {extract_emails_from_text(t) : t \in content.elements}

\* No returned address is a numeric-prefix variant of a validly extracted one.
NoParsingErrorReturned ==
    \A k \in DOMAIN eresult :
        \A a \in Range(eresult[k]), b \in ValidlyExtracted(ecall.content) :
            ~NumericPrefixVariant(a, b)

\* C27: parsing-error de-duplication is part of every extraction: for both
\* content types, html and text, the list returned by
\* extract_and_filter_emails never holds an address whose local part is an
\* all-digit prefix followed by the local part of another validly extracted
\* address of the same domain.
C27_NoParsingErrorInAnyExtraction ==
    Returned("extract_and_filter_emails") => NoParsingErrorReturned


\* Both walks of the site have returned.
BothModesWalked == walks # <<>> /\ wpc = "returned"

\* C28: the two pagination modes keep the same external contract: for the
\* same sequence of portal pages (same links per page, same presence of the
\* next-page control, same failures) the walk that clicks to advance and the
\* walk that requests a templated URL per page return the same set of links
\* and the same number of pages walked.
C28_BothModesReturnTheSame ==
    BothModesWalked =>
        /\ Range(company_profiles) = walks[1].links
        /\ pages_scraped = walks[1].pages_scraped

====
